---- MODULE Spec2Model ----
(***************************************************************************)
(* Client lifecycle of the Dome Go SDK: Start / Close, the registration-   *)
(* or-heartbeat worker, the pending auth-event queue and the control-plane *)
(* RPCs they issue.                                                        *)
(***************************************************************************)
EXTENDS Integers, Sequences, FiniteSets, TLC

\* ---------------------------------------------------------------- bounds
MaxWorkers == 2        \* workers (goroutines) ever created by one client
MaxEvents  == 2        \* auth events the transport produces
MaxCalls   == 3        \* Start / Close calls made on the client
MaxFailures == 3       \* consecutive heartbeat failures followed
MaxRequests == 3       \* requests sent through one credential transport
MaxClock   == 2        \* seconds that pass while the transport is followed
MaxLoads   == 2        \* LoadBundle calls made on one engine
MaxEvals   == 2        \* Evaluate calls made on one engine
MaxClients == 2        \* clients that Init creates
MaxExponent == 32      \* largest failure count that backoff is called with

\* ------------------------------------------------------------- constants
ListLimit == 100       \* page size of the ListAgents lookup
\* Durations are counted in units of 10 s; time.Duration is an int64 of
\* nanoseconds, so the largest Duration is 2^63 - 1 ns = 922337203 units.
MaxDuration == 922337203
MinDuration == -MaxDuration - 1
maxHeartbeatInterval == 30         \* 5 * time.Minute
HeartbeatIntervals == {3, 6, 30, 45}   \* config.heartbeatInterval: 30 s, 1, 5, 7.5 min
JitterSteps == {-16, -8, 0, 8, 15}     \* rand.Float64()*2 - 1, in sixteenths

\* <<baseInterval, maxInterval>> of a retryWithBackoff call: 10 s and 2 min,
\* 30 s and 2 min, 30 s and 5 min
RetryIntervals == {<<1, 12>>, <<3, 12>>, <<3, 30>>}
\* arguments of a backoff call: base > 0 and max >= base
BackoffBases == {1, 3, 30}
BackoffMaxes == {3, 30, 360}

\* the credential transports count in seconds
TokenBuffer == 30                  \* now.Add(30*time.Second).Before(expiry)
VaultBuffer == 60                  \* time.Now().Add(60*time.Second).Before(vaultExp)
Lifetimes == {30, 31, 32}          \* expires_in / ttl a token comes with
Leases == {60, 61}                 \* lease_duration a Vault login comes with
Strategies == {"exchange", "vault"}
Requests == 1..MaxRequests
\* a request without Authorization, one that carries it, one to the token endpoint
RequestKinds == {"plain", "authed", "tokenurl"}
\* how an acquisition RPC ends: 200 with a token, transport error, other
\* status, undecodable body, body without a token
RpcOutcomes == {"ok", "transport", "status", "decode", "missing"}
NoToken == 0
NoRequest == 0                     \* the transport mutex is not held

\* A credential string, by what decodeToken makes of it: enc says how far it
\* decodes ("plain": not base64, "base64": not JSON, "json": a JSON object),
\* the other fields are those of the decoded agentCredentials.
NoCredential == [text |-> "", enc |-> "plain", apiURL |-> FALSE, vaultAddr |-> FALSE,
                 authMethod |-> "", oidc |-> FALSE]
Blobs(text) ==
  {[NoCredential EXCEPT !.text = text, !.enc = e] : e \in {"plain", "base64"}}
  \cup [text : {text}, enc : {"json"}, apiURL : BOOLEAN, vaultAddr : BOOLEAN,
        authMethod : {"approle", "kubernetes", ""}, oidc : BOOLEAN]
\* the five places a credential can come from, highest priority first
AuthSources ==
  <<"WithCredentials", "WithAPIKey", "DOME_AGENT_TOKEN", "DOME_API_KEY", "DOME_TOKEN">>
\* A bundle maps each file name to its content: not in the bundle, Cedar
\* source that parses, or source that does not.
Files == {"a.cedar", "b.cedar"}
Bundles == [Files -> {"absent", "good", "bad"}]
Loads == 1..MaxLoads               \* LoadBundle call l is given version l
Evals == 1..MaxEvals
NoVersion == 0
NoLoad == 0
NotBuilt == [state |-> "none", err |-> "", transport |-> "", method |-> "",
             bearer |-> "", source |-> ""]

Callers == {"t1", "t2"}            \* threads calling the public API
Names   == {"a", "b"}              \* agent names passed to Start
StartNames == Names \cup {""}      \* "" is the missing name
AgentIds == <<"agent-1", "agent-2">>
NoID == ""
ForeignCounts == {0, ListLimit}    \* agents of the tenant listed ahead of ours

Workers == 1..MaxWorkers
NoWorker == 0
Free == "free"

VARIABLES
  gracefulDegradation,  \* config.gracefulDegradation
  disableHeartbeat,     \* config.disableHeartbeat
  mu,                   \* Client.mu: Free or the caller holding it
  agentID,              \* Client.agentID
  cancel,               \* Client.cancel: worker whose context it cancels, 0 = nil
  stopped,              \* Client.stopped: worker whose channel it is, 0 = nil
  policySyncer,         \* Client.policySyncer: "nil" or "running"
  pendingAuthEvents,    \* Client.pendingAuthEvents
  workers,              \* goroutines started by startHeartbeat / startBackgroundRegistration
  chanClosed,           \* per completion channel: has it been closed
  nextWorker,           \* number of workers created so far
  emitters,             \* fire-and-forget goroutines of authCallback not yet sent
  callers,              \* per calling thread: position inside Start / Close
  ret,                  \* what the last call that returned has returned
  registry,             \* control plane: name -> index of the id it assigned, 0 = none
  nextID,               \* control plane: ids assigned so far
  foreign,              \* control plane: agents listed ahead of this client's
  rpc,                  \* the RPC issued by the last step (kind "none" if none)
  authSent,             \* auth-event ReportEvents in the order they reached the control plane
  produced,             \* auth events produced by the transport so far
  calls,                \* API calls made so far
  quietCloses,          \* Closes returned since a Start last began or was running (2 = two or more)
  panicked,             \* a closed channel was closed again
  hbPc,                 \* runHeartbeat: "off", "init", "wait" or "done"
  baseInterval,         \* runHeartbeat: baseInterval
  currentInterval,      \* runHeartbeat: currentInterval
  consecutiveFailures,  \* runHeartbeat: consecutiveFailures
  hbCtxDone,            \* runHeartbeat: ctx has been canceled
  hbResult,             \* what the last sendHeartbeat returned: "none", "ok", "fail"
  prevFailures,         \* consecutiveFailures before the last tick
  strategy,             \* which credential transport this is
  tMu,                  \* Transport.mu: the request holding it, 0 if none
  token,                \* Transport.token / OidcToken: 0 is the empty string
  expiry,               \* Transport.expiry / OidcExpiry
  vaultToken,           \* vault Transport.vaultToken: 0 is the empty string, 1 a token
  vaultExp,             \* vault Transport.vaultExp
  clock,                \* the wall clock, in seconds
  reqs,                 \* per request: position in RoundTrip and what became of it
  exchanges,            \* final-token requests made so far
  concurrent,           \* every RoundTrip so far began before any had returned
  shortLived,           \* some final token came with a lifetime of 30 s or less
  staleSeen,            \* some request found the cached token less than 30 s from expiry
  optCredentials,       \* config.credentials (WithCredentials)
  optAPIKey,            \* config.apiKey (WithAPIKey)
  envAgentToken,        \* os.Getenv("DOME_AGENT_TOKEN")
  envAPIKey,            \* os.Getenv("DOME_API_KEY")
  envToken,             \* os.Getenv("DOME_TOKEN")
  built,                \* what NewClient returned: the error or the transport
  policySet,            \* Engine.policySet: the ids of its policies
  policyVersion,        \* Engine.policyVersion: 0 is the empty string
  eWriter,              \* Engine.mu: the LoadBundle call holding the write lock, 0 if none
  eReaders,             \* Engine.mu: the Evaluate calls holding the read lock
  loads,                \* per LoadBundle call: its arguments, position and locals
  evals,                \* per Evaluate call: its position and what it has read
  installed,            \* the <<policy set, version>> pairs the engine has held
  disablePolicy,        \* config.disablePolicy
  etag,                 \* Fetcher.etag
  fetches,              \* per syncOnce call: its position, the response and the FetchResult
  globalMu,             \* the goroutine holding globalMu, "" if none
  globalClient,         \* the client the package holds, 0 for nil
  created,              \* the clients Init has created: state, worker, what Close did
  goroutines,           \* per goroutine: its call on the package, position and last return
  syncer,               \* Syncer: Start, loop and Stop positions, stopCh, wg, the ticker
  retry,                \* retryWithBackoff: position, failures, calls of fn, ctx
  backoffCall           \* one call of backoff: its arguments and what it returned

cfgVars    == <<gracefulDegradation, disableHeartbeat>>
clientVars == <<mu, agentID, cancel, stopped, policySyncer, pendingAuthEvents>>
workerVars == <<workers, chanClosed, nextWorker, panicked>>
eventVars  == <<emitters, authSent, produced>>
backendVars == <<registry, nextID, foreign>>
callVars   == <<callers, ret, calls, quietCloses>>
hbVars     == <<hbPc, baseInterval, currentInterval, consecutiveFailures, hbCtxDone,
                hbResult, prevFailures>>
\* state of the components that the Start / Close steps never touch
tokenVars  == <<strategy, tMu, token, expiry, vaultToken, vaultExp, clock, reqs,
                exchanges, concurrent, shortLived, staleSeen>>
\* what the transport steps record about the run so far
tokenLog   == <<concurrent, shortLived, staleSeen>>
authVars   == <<optCredentials, optAPIKey, envAgentToken, envAPIKey, envToken, built>>
policyVars == <<policySet, policyVersion, eWriter, eReaders, loads, evals, installed,
                disablePolicy>>
fetchVars  == <<etag, fetches>>
globalVars == <<globalMu, globalClient, created, goroutines>>
syncVars   == <<syncer>>
retryVars  == <<retry, backoffCall>>
libVars    == <<hbVars, tokenVars, authVars, policyVars, fetchVars, globalVars, syncVars,
                retryVars>>
\* state of the client lifecycle, which the component steps never touch
lifecycleVars == <<cfgVars, clientVars, workerVars, eventVars, backendVars, callVars>>
\* everything but the state of one component
outsideHeartbeat ==
  <<lifecycleVars, tokenVars, authVars, policyVars, fetchVars, globalVars, syncVars, retryVars>>
outsideTransport ==
  <<lifecycleVars, hbVars, authVars, policyVars, fetchVars, globalVars, syncVars, retryVars>>
outsideAuth ==
  <<lifecycleVars, hbVars, tokenVars, policyVars, fetchVars, globalVars, syncVars, retryVars>>
outsideEngine ==
  <<lifecycleVars, hbVars, tokenVars, authVars, fetchVars, globalVars, syncVars, retryVars>>
outsideFetcher ==
  <<lifecycleVars, hbVars, tokenVars, authVars, globalVars, syncVars, retryVars>>
outsideSyncer ==
  <<lifecycleVars, hbVars, tokenVars, authVars, policyVars, fetchVars, globalVars,
    retryVars>>
outsideRetry ==
  <<lifecycleVars, hbVars, tokenVars, authVars, policyVars, fetchVars, globalVars,
    syncVars>>
outsideGlobal ==
  <<lifecycleVars, hbVars, tokenVars, authVars, policyVars, fetchVars, syncVars, retryVars>>
vars == <<lifecycleVars, libVars, rpc>>

NoRpc == [kind |-> "none", agent |-> NoID, ev |-> ""]
Rpc(k, a, e) == [kind |-> k, agent |-> a, ev |-> e]

IdleCaller == [pc |-> "idle", op |-> "", name |-> "", info |-> NoID,
               evAgent |-> NoID, fail |-> ""]
\* cause: why registration failed ("register", "list", "notfound"), "" if it did not
NoRet == [by |-> "", op |-> "", err |-> "", id |-> NoID, name |-> "", cause |-> ""]
Ret(c, op, err, id, name, cause) ==
  [by |-> c, op |-> op, err |-> err, id |-> id, name |-> name, cause |-> cause]
UnbornWorker == [pc |-> "unborn", kind |-> "", name |-> "", info |-> NoID,
                 hbAgent |-> NoID, cancelled |-> FALSE, chan |-> NoWorker]

Alive(w) == workers[w].pc \notin {"unborn", "done"}
AliveWorkers == {w \in Workers : Alive(w)}
StartInFlight(except) ==
  \E c \in Callers \ {except} : callers[c].op = "Start" /\ callers[c].pc # "idle"

\* the components in the state where they have not been started
HeartbeatOff ==
  /\ hbPc = "off"
  /\ baseInterval = 0
  /\ currentInterval = 0
  /\ consecutiveFailures = 0
  /\ hbCtxDone = FALSE
  /\ hbResult = "none"
  /\ prevFailures = 0

NewRequest == [pc |-> "new", kind |-> "plain", now |-> 0, sent |-> "no",
               bearer |-> NoToken, failed |-> FALSE]

\* NewTransport: an empty cache
NewTransport ==
  /\ strategy \in Strategies
  /\ tMu = NoRequest
  /\ token = NoToken
  /\ expiry = 0
  /\ vaultToken = NoToken
  /\ vaultExp = 0
  /\ clock = 0
  /\ reqs = [r \in Requests |-> NewRequest]
  /\ exchanges = 0
  /\ concurrent = TRUE
  /\ shortLived = FALSE
  /\ staleSeen = FALSE

\* the options and environment of the tests: WithAPIKey("test-key") alone
AuthOff ==
  /\ optCredentials = NoCredential
  /\ optAPIKey = "test-key"
  /\ envAgentToken = NoCredential
  /\ envAPIKey = ""
  /\ envToken = ""
  /\ built = NotBuilt

IdleLoad == [pc |-> "idle", policies |-> [f \in Files |-> "absent"], todo |-> {},
             newPolicySet |-> {}, err |-> FALSE]
IdleEval == [pc |-> "idle", set |-> {}, allow |-> FALSE, version |-> NoVersion,
             reason |-> "", authorized |-> FALSE]

\* NewEngine: no policies, no version
NewEngine ==
  /\ policySet = {}
  /\ policyVersion = NoVersion
  /\ eWriter = NoLoad
  /\ eReaders = {}
  /\ loads = [l \in Loads |-> IdleLoad]
  /\ evals = [e \in Evals |-> IdleEval]
  /\ installed = {<<{}, NoVersion>>}

\* policy evaluation left enabled (the default)
PolicyOn == disablePolicy = FALSE

\* What the bundle endpoint may answer: a status, an ETag header ("" when
\* there is none) and a body, which is a bundle of files or does not decode.
Statuses == {200, 304, 404, 500}
ETags == {"", "etag-1", "etag-2"}
NoBundle == <<>>                   \* a nil *BundleResponse
NoBody == [decodes |-> FALSE, policies |-> [f \in Files |-> "absent"]]
FetchBodies ==
  [decodes : {TRUE}, policies : {b \in Bundles : \A f \in Files : b[f] # "absent"}]
    \cup {NoBody}
NoResponse == [status |-> 0, etag |-> "", body |-> NoBody]
Responses ==
  [status : {200}, etag : ETags, body : FetchBodies]
    \cup [status : Statuses \ {200}, etag : ETags, body : {NoBody}]
    \cup {NoResponse}
IdleFetch == [pc |-> "idle", ifNoneMatch |-> "", resp |-> NoResponse,
              bundle |-> NoBundle, changed |-> FALSE, err |-> FALSE,
              syncErr |-> FALSE]

\* The package-level client and the goroutines that call the package
Goroutines == {"g1", "g2"}
NoGoroutine == ""
Clients == 1..MaxClients
NoClient == 0
GlobalOps == {"Init", "Shutdown", "Check", "Middleware", "Register"}
NoClientYet == [state |-> "none", worker |-> FALSE, stopped |-> FALSE]
NoReturn == [op |-> "none", err |-> "", next |-> FALSE, client |-> NoClient]
IdleGoroutine == [op |-> "none", pc |-> "idle", ref |-> NoClient, ret |-> NoReturn]

\* the package before any Init: var globalClient *Client
NoGlobal ==
  /\ globalMu = NoGoroutine
  /\ globalClient = NoClient
  /\ created = [k \in Clients |-> NoClientYet]
  /\ goroutines = [g \in Goroutines |-> IdleGoroutine]

\* NewSyncer: stopCh open, the wait group at zero, no goroutine, no call
\* stopAt is where the loop was when Stop was called
IdleSyncer == [start |-> "idle", loop |-> "off", stop |-> "idle", stopCh |-> "open",
               wg |-> 0, tick |-> FALSE, calls |-> 0, stopAt |-> ""]
NewSyncer == syncer = IdleSyncer

\* no call of retryWithBackoff or backoff is followed
\* failures and invoked count up to MaxFailures and MaxFailures + 1, which
\* stand for that many or more
IdleRetry == [pc |-> "off", base |-> 0, maxInterval |-> 0, failures |-> 0,
              invoked |-> 0, wait |-> 0, ctxDone |-> FALSE, returned |-> "none"]
\* out = 0: the call has not returned
NoBackoffCall == [base |-> 0, maxInterval |-> 0, failures |-> 0, out |-> 0]
RetryOff == retry = IdleRetry /\ backoffCall = NoBackoffCall

\* NewFetcher: no ETag remembered
NewFetcher ==
  /\ etag = ""
  /\ fetches = [l \in Loads |-> IdleFetch]

LibOff ==
  /\ HeartbeatOff /\ NewTransport /\ strategy = "exchange" /\ AuthOff
  /\ NewEngine /\ PolicyOn /\ NewFetcher /\ NoGlobal /\ NewSyncer /\ RetryOff

\* the client as NewClient returns it
NewClient ==
  /\ gracefulDegradation \in BOOLEAN
  /\ disableHeartbeat \in BOOLEAN
  /\ mu = Free
  /\ agentID = NoID
  /\ cancel = NoWorker
  /\ stopped = NoWorker
  /\ policySyncer = "nil"
  /\ pendingAuthEvents = <<>>
  /\ workers = [w \in Workers |-> UnbornWorker]
  /\ chanClosed = [w \in Workers |-> FALSE]
  /\ nextWorker = 0
  /\ emitters = {}
  /\ callers = [c \in Callers |-> IdleCaller]
  /\ ret = NoRet
  /\ registry = [n \in Names |-> 0]
  /\ nextID = 0
  /\ foreign \in ForeignCounts
  /\ rpc = NoRpc
  /\ authSent = <<>>
  /\ produced = 0
  /\ calls = 0
  /\ quietCloses = 0
  /\ panicked = FALSE

Init == NewClient /\ LibOff

\* ------------------------------------------------------- control plane
\* RegisterAgent: rejects a name it already holds, else assigns the next id.
RegisterAgent(name, up, outcome) ==
  /\ outcome = IF ~up THEN "fail"
               ELSE IF registry[name] # 0 THEN "exists" ELSE "ok"
  /\ IF outcome = "ok"
       THEN /\ nextID' = nextID + 1
            /\ registry' = [registry EXCEPT ![name] = nextID + 1]
       ELSE UNCHANGED <<nextID, registry>>
  /\ UNCHANGED foreign

\* ListAgents(limit): the first `limit` agents of the tenant, oldest first.
ListAgents(limit) ==
  {[id |-> AgentIds[registry[n]], name |-> n] :
      n \in {m \in Names : registry[m] # 0 /\ foreign + registry[m] <= limit}}

\* findExistingAgent: the listed agent with that name, NoID if none is listed.
findExistingAgent(name) ==
  LET found == {a \in ListAgents(ListLimit) : a.name = name}
  IN IF found = {} THEN NoID ELSE (CHOOSE a \in found : TRUE).id

\* ------------------------------------------------------------ handover
\* make(chan struct{}) + context.WithCancel + go func(): the new worker
\* becomes the one c.cancel and c.stopped refer to.
Spawn(kind, name, agent) ==
  LET w == nextWorker + 1 IN
  /\ nextWorker' = w
  /\ cancel' = w
  /\ stopped' = w
  /\ workers' = [workers EXCEPT ![w] =
        [UnbornWorker EXCEPT !.pc = "spawned", !.kind = kind,
                             !.name = name, !.hbAgent = agent]]

\* if c.cancel != nil { c.cancel(); ... }
CancelOld ==
  IF cancel # NoWorker
    THEN workers' = [workers EXCEPT ![cancel].cancelled = TRUE]
    ELSE UNCHANGED workers

\* a handover that does not wait for the old worker
HandoverNoWait == TRUE

\* if c.cancel != nil { ...; <-c.stopped }: the receive returns once closed
HandoverDone == IF cancel = NoWorker THEN TRUE ELSE chanClosed[stopped]

\* ---------------------------------------------------------------- Start
\* a Start that finds the name missing only after asking the control plane
StartMissingNameAfterRegister(c) ==
  /\ ret' = Ret(c, "Start", "name", NoID, "", "name")
  /\ rpc' = Rpc("RegisterAgent", NoID, "")
  /\ UNCHANGED <<callers, quietCloses>>

\* Start: if opts.Name == "" { return nil, errorf("agent name is required") }
StartMissingName(c) ==
  /\ ret' = Ret(c, "Start", "name", NoID, "", "name")
  /\ rpc' = NoRpc
  /\ UNCHANGED <<callers, quietCloses>>

\* Start: the name check
StartCall(c, name) ==
  /\ callers[c].pc = "idle"
  /\ calls < MaxCalls
  /\ name # "" =>
       nextWorker + Cardinality({d \in Callers : callers[d].op = "Start"}) < MaxWorkers
  /\ calls' = calls + 1
  /\ IF name = ""
       THEN StartMissingName(c)
       ELSE /\ callers' = [callers EXCEPT ![c] =
                  [IdleCaller EXCEPT !.pc = "s_register", !.op = "Start", !.name = name]]
            /\ quietCloses' = 0
            /\ rpc' = NoRpc
            /\ UNCHANGED ret
  /\ UNCHANGED <<libVars, cfgVars, clientVars, workerVars, eventVars, backendVars>>

\* a Start that retries in the background whatever the configuration
StartFailedAlwaysRetries(c, err) ==
  /\ callers' = [callers EXCEPT ![c].pc = "s_bg_lock", ![c].fail = err]
  /\ UNCHANGED ret

\* Start, err != nil: background retry under graceful degradation, else the error
StartFailed(c, err) ==
  IF gracefulDegradation
    THEN /\ callers' = [callers EXCEPT ![c].pc = "s_bg_lock", ![c].fail = err]
         /\ UNCHANGED ret
    ELSE /\ callers' = [callers EXCEPT ![c] = IdleCaller]
         /\ ret' = Ret(c, "Start", err, NoID, "", err)

\* doRegister: the RegisterAgent RPC
StartRegister(c) ==
  /\ callers[c].pc = "s_register"
  /\ \E up \in BOOLEAN, outcome \in {"ok", "exists", "fail"} :
       /\ RegisterAgent(callers[c].name, up, outcome)
       /\ rpc' = Rpc("RegisterAgent", NoID, "")
       /\ CASE outcome = "ok" ->
                 /\ callers' = [callers EXCEPT ![c].pc = "s_setid",
                                               ![c].info = AgentIds[nextID + 1]]
                 /\ UNCHANGED ret
            [] outcome = "exists" ->
                 /\ callers' = [callers EXCEPT ![c].pc = "s_list"]
                 /\ UNCHANGED ret
            [] outcome = "fail" -> StartFailed(c, "register")
  /\ UNCHANGED <<libVars, cfgVars, clientVars, workerVars, eventVars, calls, quietCloses>>

\* doRegister -> findExistingAgent: the ListAgents RPC and the search by name
StartList(c) ==
  /\ callers[c].pc = "s_list"
  /\ \E up \in BOOLEAN :
       LET id == findExistingAgent(callers[c].name) IN
       IF up /\ id # NoID
         THEN /\ rpc' = Rpc("ListAgents", NoID, "")
              /\ callers' = [callers EXCEPT ![c].pc = "s_setid", ![c].info = id]
              /\ UNCHANGED ret
         ELSE /\ rpc' = Rpc("ListAgents", NoID, "")
              /\ StartFailed(c, IF up THEN "notfound" ELSE "list")
  /\ UNCHANGED <<libVars, cfgVars, clientVars, workerVars, eventVars, backendVars, calls, quietCloses>>

\* Start: c.setAgentID(info.ID)
StartSetID(c) ==
  /\ callers[c].pc = "s_setid"
  /\ mu = Free
  /\ agentID' = callers[c].info
  /\ callers' = [callers EXCEPT ![c].pc = "s_event_read"]
  /\ rpc' = NoRpc
  /\ UNCHANGED <<libVars, cfgVars, mu, cancel, stopped, policySyncer, pendingAuthEvents,
                 workerVars, eventVars, backendVars, ret, calls, quietCloses>>

\* reportEvent: agentID := c.AgentID()
StartEventRead(c) ==
  /\ callers[c].pc = "s_event_read"
  /\ mu = Free
  /\ callers' = [callers EXCEPT ![c].pc = "s_event_rpc", ![c].evAgent = agentID]
  /\ rpc' = NoRpc
  /\ UNCHANGED <<libVars, cfgVars, clientVars, workerVars, eventVars, backendVars, ret, calls,
                 quietCloses>>

\* Start: return info, nil
StartReturn(c) ==
  /\ callers' = [callers EXCEPT ![c] = IdleCaller]
  /\ ret' = Ret(c, "Start", "nil", callers[c].info, callers[c].name, "")

\* reportEventForAgent(agentID, "agent.started"), then the heartbeat decision
StartEventRpc(c) ==
  /\ callers[c].pc = "s_event_rpc"
  /\ IF callers[c].evAgent = NoID
       THEN rpc' = NoRpc
       ELSE rpc' = Rpc("ReportEvent", callers[c].evAgent, "agent.started")
  /\ IF disableHeartbeat
       THEN StartReturn(c)
       ELSE /\ callers' = [callers EXCEPT ![c].pc = "s_hb_lock"]
            /\ UNCHANGED ret
  /\ UNCHANGED <<libVars, cfgVars, clientVars, workerVars, eventVars, backendVars, calls,
                 quietCloses>>

\* startHeartbeat: c.mu.Lock(); if c.cancel != nil { c.cancel()
StartHbLock(c) ==
  /\ callers[c].pc = "s_hb_lock"
  /\ mu = Free
  /\ mu' = c
  /\ CancelOld
  /\ callers' = [callers EXCEPT ![c].pc = "s_hb_wait"]
  /\ rpc' = NoRpc
  /\ UNCHANGED <<libVars, cfgVars, agentID, cancel, stopped, policySyncer, pendingAuthEvents,
                 chanClosed, nextWorker, panicked, eventVars, backendVars, ret, calls,
                 quietCloses>>

\* startHeartbeat: <-c.stopped }, new context and channel, go func, unlock
StartHbSpawn(c) ==
  /\ callers[c].pc = "s_hb_wait"
  /\ HandoverDone
  /\ Spawn("hb", callers[c].name, callers[c].info)
  /\ mu' = Free
  /\ StartReturn(c)
  /\ rpc' = NoRpc
  /\ UNCHANGED <<libVars, cfgVars, agentID, policySyncer, pendingAuthEvents, chanClosed,
                 panicked, eventVars, backendVars, calls, quietCloses>>

\* startBackgroundRegistration: c.mu.Lock(); if c.cancel != nil { c.cancel()
StartBgLock(c) ==
  /\ callers[c].pc = "s_bg_lock"
  /\ mu = Free
  /\ mu' = c
  /\ CancelOld
  /\ callers' = [callers EXCEPT ![c].pc = "s_bg_wait"]
  /\ rpc' = NoRpc
  /\ UNCHANGED <<libVars, cfgVars, agentID, cancel, stopped, policySyncer, pendingAuthEvents,
                 chanClosed, nextWorker, panicked, eventVars, backendVars, ret, calls,
                 quietCloses>>

\* a degraded Start that hands the registration error to its caller
StartReturnsRegistrationError(c) ==
  /\ callers' = [callers EXCEPT ![c] = IdleCaller]
  /\ ret' = Ret(c, "Start", callers[c].fail, NoID, "", callers[c].fail)

\* Start: return &AgentInfo{Name: opts.Name}, nil
StartReturnPlaceholder(c) ==
  /\ callers' = [callers EXCEPT ![c] = IdleCaller]
  /\ ret' = Ret(c, "Start", "nil", NoID, callers[c].name, callers[c].fail)

\* startBackgroundRegistration: <-c.stopped }, new context and channel, go func, unlock
StartBgSpawn(c) ==
  /\ callers[c].pc = "s_bg_wait"
  /\ HandoverDone
  /\ Spawn("reg", callers[c].name, NoID)
  /\ mu' = Free
  /\ StartReturnPlaceholder(c)
  /\ rpc' = NoRpc
  /\ UNCHANGED <<libVars, cfgVars, agentID, policySyncer, pendingAuthEvents, chanClosed,
                 panicked, eventVars, backendVars, calls, quietCloses>>

\* ---------------------------------------------------------------- Close
\* Close: return nil
CloseReturn(c) ==
  /\ callers' = [callers EXCEPT ![c] = IdleCaller]
  /\ ret' = Ret(c, "Close", "nil", NoID, "", "")
  /\ quietCloses' = IF StartInFlight(c) THEN 0
                     ELSE IF quietCloses = 0 THEN 1 ELSE 2

\* Close: lock, stop the policy syncer, test c.cancel
CloseLock(c) ==
  /\ callers[c].pc = "idle"
  /\ calls < MaxCalls
  /\ mu = Free
  /\ calls' = calls + 1
  /\ policySyncer' = "nil"
  /\ rpc' = NoRpc
  /\ IF cancel # NoWorker
       THEN /\ mu' = c
            /\ callers' = [callers EXCEPT ![c] =
                 [IdleCaller EXCEPT !.op = "Close",
                    !.pc = IF agentID # NoID THEN "c_report" ELSE "c_cancel"]]
            /\ UNCHANGED <<ret, quietCloses>>
       ELSE /\ mu' = Free
            /\ CloseReturn(c)
  /\ UNCHANGED <<libVars, cfgVars, agentID, cancel, stopped, pendingAuthEvents, workerVars,
                 eventVars, backendVars>>

\* Close: c.reportEventForAgent(ctx, c.agentID, "agent.stopped")
CloseReport(c) ==
  /\ callers[c].pc = "c_report"
  /\ rpc' = Rpc("ReportEvent", agentID, "agent.stopped")
  /\ callers' = [callers EXCEPT ![c].pc = "c_cancel"]
  /\ UNCHANGED <<libVars, cfgVars, clientVars, workerVars, eventVars, backendVars, ret, calls,
                 quietCloses>>

\* Close: c.cancel()
CloseCancel(c) ==
  /\ callers[c].pc = "c_cancel"
  /\ workers' = [workers EXCEPT ![cancel].cancelled = TRUE]
  /\ callers' = [callers EXCEPT ![c].pc = "c_wait"]
  /\ rpc' = NoRpc
  /\ UNCHANGED <<libVars, cfgVars, clientVars, chanClosed, nextWorker, panicked, eventVars,
                 backendVars, ret, calls, quietCloses>>

\* a Close that does not wait for the worker
CloseWaitSkipped == TRUE

\* Close: <-c.stopped returns once the channel is closed
CloseWaitDone == chanClosed[stopped]

\* a Close that leaves the cancel handle in place
CloseKeepsCancel == cancel' = cancel

\* Close: c.cancel = nil
CloseClear == cancel' = NoWorker

\* Close: <-c.stopped; c.cancel = nil; unlock; return nil
CloseWait(c) ==
  /\ callers[c].pc = "c_wait"
  /\ CloseWaitDone
  /\ CloseClear
  /\ mu' = Free
  /\ CloseReturn(c)
  /\ rpc' = NoRpc
  /\ UNCHANGED <<libVars, cfgVars, agentID, stopped, policySyncer, pendingAuthEvents, workerVars,
                 eventVars, backendVars, calls>>

\* startPolicySyncer: create the syncer and Start it, under the mutex
StartPolicySyncer ==
  /\ mu = Free
  /\ policySyncer' = "running"
  /\ quietCloses' = 0
  /\ rpc' = NoRpc
  /\ UNCHANGED <<libVars, cfgVars, mu, agentID, cancel, stopped, pendingAuthEvents, workerVars,
                 eventVars, backendVars, callers, ret, calls>>

\* --------------------------------------------------------------- worker
\* go func() { defer close(c.stopped): the operand is evaluated here
WorkerBegin(w) ==
  /\ workers[w].pc = "spawned"
  /\ workers' = [workers EXCEPT ![w].chan = stopped,
                   ![w].pc = IF workers[w].kind = "hb" THEN "hb_init" ELSE "reg_try"]
  /\ rpc' = NoRpc
  /\ UNCHANGED <<libVars, cfgVars, clientVars, chanClosed, nextWorker, panicked, eventVars,
                 backendVars, callVars>>

\* a goroutine without the deferred close
ExitWithoutClose(w, wrec) ==
  /\ workers' = [workers EXCEPT ![w] = [wrec EXCEPT !.pc = "done"]]
  /\ UNCHANGED <<chanClosed, panicked>>

\* the goroutine returns: the deferred close(c.stopped) runs
Exit(w, wrec) ==
  /\ workers' = [workers EXCEPT ![w] = [wrec EXCEPT !.pc = "done"]]
  /\ IF chanClosed[wrec.chan]
       THEN panicked' = TRUE /\ UNCHANGED chanClosed
       ELSE chanClosed' = [chanClosed EXCEPT ![wrec.chan] = TRUE] /\ UNCHANGED panicked

\* retryWithBackoff -> fn -> doRegister: the RegisterAgent RPC
RegTry(w) ==
  /\ workers[w].pc = "reg_try"
  /\ \E up \in BOOLEAN, outcome \in {"ok", "exists", "fail"} :
       /\ workers[w].cancelled => ~up
       /\ RegisterAgent(workers[w].name, up, outcome)
       /\ rpc' = Rpc("RegisterAgent", NoID, "")
       /\ workers' = [workers EXCEPT
            ![w].pc = CASE outcome = "ok" -> "reg_setid"
                        [] outcome = "exists" -> "reg_list"
                        [] outcome = "fail" -> "reg_backoff",
            ![w].info = IF outcome = "ok" THEN AgentIds[nextID + 1] ELSE NoID]
  /\ UNCHANGED <<libVars, cfgVars, clientVars, chanClosed, nextWorker, panicked, eventVars, callVars>>

\* retryWithBackoff -> fn -> doRegister -> findExistingAgent
RegList(w) ==
  /\ workers[w].pc = "reg_list"
  /\ \E up \in BOOLEAN :
       LET id == findExistingAgent(workers[w].name) IN
       /\ workers[w].cancelled => ~up
       /\ IF up /\ id # NoID
            THEN /\ rpc' = Rpc("ListAgents", NoID, "")
                 /\ workers' = [workers EXCEPT ![w].pc = "reg_setid", ![w].info = id]
            ELSE /\ rpc' = Rpc("ListAgents", NoID, "")
                 /\ workers' = [workers EXCEPT ![w].pc = "reg_backoff"]
  /\ UNCHANGED <<libVars, cfgVars, clientVars, chanClosed, nextWorker, panicked, eventVars,
                 backendVars, callVars>>

\* retryWithBackoff: select, case <-time.After(wait): call fn again
RegRetry(w) ==
  /\ workers[w].pc = "reg_backoff"
  /\ workers' = [workers EXCEPT ![w].pc = "reg_try"]
  /\ rpc' = NoRpc
  /\ UNCHANGED <<libVars, cfgVars, clientVars, chanClosed, nextWorker, panicked, eventVars,
                 backendVars, callVars>>

\* retryWithBackoff: select, case <-ctx.Done(): return ctx.Err(); the worker returns
RegCanceled(w) ==
  /\ workers[w].pc = "reg_backoff"
  /\ workers[w].cancelled
  /\ Exit(w, workers[w])
  /\ rpc' = NoRpc
  /\ UNCHANGED <<libVars, cfgVars, clientVars, nextWorker, eventVars, backendVars, callVars>>

\* fn: c.setAgentID(info.ID); retry returns nil; the heartbeat decision
RegSetID(w) ==
  /\ workers[w].pc = "reg_setid"
  /\ mu = Free
  /\ agentID' = workers[w].info
  /\ IF disableHeartbeat
       THEN Exit(w, workers[w])
       ELSE /\ workers' = [workers EXCEPT ![w].pc = "reg_getid"]
            /\ UNCHANGED <<chanClosed, panicked>>
  /\ rpc' = NoRpc
  /\ UNCHANGED <<libVars, cfgVars, mu, cancel, stopped, policySyncer, pendingAuthEvents,
                 nextWorker, eventVars, backendVars, callVars>>

\* c.runHeartbeat(ctx, c.AgentID()): the argument
RegGetID(w) ==
  /\ workers[w].pc = "reg_getid"
  /\ mu = Free
  /\ workers' = [workers EXCEPT ![w].pc = "hb_init", ![w].hbAgent = agentID]
  /\ rpc' = NoRpc
  /\ UNCHANGED <<libVars, cfgVars, clientVars, chanClosed, nextWorker, panicked, eventVars,
                 backendVars, callVars>>

\* sendHeartbeat: one Heartbeat RPC; it fails on a canceled context
sendHeartbeat(w, up) ==
  /\ workers[w].cancelled => ~up
  /\ rpc' = Rpc("Heartbeat", workers[w].hbAgent, "")

\* runHeartbeat: the initial heartbeat
HbInit(w) ==
  /\ workers[w].pc = "hb_init"
  /\ \E up \in BOOLEAN : sendHeartbeat(w, up)
  /\ workers' = [workers EXCEPT ![w].pc = "hb_wait"]
  /\ UNCHANGED <<libVars, cfgVars, clientVars, chanClosed, nextWorker, panicked, eventVars,
                 backendVars, callVars>>

\* runHeartbeat: select, case <-timer.C: one heartbeat, timer reset
HbTick(w) ==
  /\ workers[w].pc = "hb_wait"
  /\ \E up \in BOOLEAN : sendHeartbeat(w, up)
  /\ UNCHANGED <<libVars, cfgVars, clientVars, workerVars, eventVars, backendVars, callVars>>

\* runHeartbeat: select, case <-ctx.Done(): return; the worker returns
HbCanceled(w) ==
  /\ workers[w].pc = "hb_wait"
  /\ workers[w].cancelled
  /\ Exit(w, workers[w])
  /\ rpc' = NoRpc
  /\ UNCHANGED <<libVars, cfgVars, clientVars, nextWorker, eventVars, backendVars, callVars>>

\* ---------------------------------------------------------- auth events
\* kinds of event the credential transport hands to its callback
AuthEventKinds == {"agent.authenticated", "agent.auth_failed"}

\* authCallback: dispatch in a new goroutine if the agent-id is set, else queue
authCallback(kind) ==
  /\ produced < MaxEvents
  /\ mu = Free
  /\ produced' = produced + 1
  /\ IF agentID # NoID
       THEN /\ emitters' = emitters \cup
                 {[agent |-> agentID, ev |-> kind, seq |-> produced + 1]}
            /\ UNCHANGED pendingAuthEvents
       ELSE /\ pendingAuthEvents' =
                 Append(pendingAuthEvents, [ev |-> kind, seq |-> produced + 1])
            /\ UNCHANGED emitters
  /\ rpc' = NoRpc
  /\ UNCHANGED <<libVars, cfgVars, mu, agentID, cancel, stopped, policySyncer, workerVars,
                 authSent, backendVars, callVars>>

\* go c.reportEventForAgent(ctx, agentID, eventType): the ReportEvent RPC
reportEventForAgent(e) ==
  /\ e \in emitters
  /\ emitters' = emitters \ {e}
  /\ \E up \in BOOLEAN :
       /\ rpc' = Rpc("ReportEvent", e.agent, e.ev)
       /\ authSent' = IF up THEN Append(authSent, e) ELSE authSent
  /\ UNCHANGED <<libVars, cfgVars, clientVars, workerVars, produced, backendVars, callVars>>

\* ----------------------------------------------------------------- spec
CallerStep(c) ==
  \/ \E name \in StartNames : StartCall(c, name)
  \/ StartRegister(c)
  \/ StartList(c)
  \/ StartSetID(c)
  \/ StartEventRead(c)
  \/ StartEventRpc(c)
  \/ StartHbLock(c)
  \/ StartHbSpawn(c)
  \/ StartBgLock(c)
  \/ StartBgSpawn(c)
  \/ CloseLock(c)
  \/ CloseReport(c)
  \/ CloseCancel(c)
  \/ CloseWait(c)

WorkerStep(w) ==
  \/ WorkerBegin(w)
  \/ RegTry(w)
  \/ RegList(w)
  \/ RegRetry(w)
  \/ RegCanceled(w)
  \/ RegSetID(w)
  \/ RegGetID(w)
  \/ HbInit(w)
  \/ HbTick(w)
  \/ HbCanceled(w)

\* Start and Close called from any thread, and the worker
Next ==
  \/ \E c \in Callers : CallerStep(c)
  \/ \E w \in Workers : WorkerStep(w)
  \/ StartPolicySyncer

Spec == Init /\ [][Next]_vars

\* the same client driven by one thread, with the credential transport
\* producing auth events
NextEvents ==
  \/ CallerStep("t1")
  \/ \E w \in Workers : WorkerStep(w)
  \/ \E kind \in AuthEventKinds : authCallback(kind)
  \/ \E e \in emitters : reportEventForAgent(e)

SpecEvents == Init /\ [][NextEvents]_vars

\* fairness: a goroutine that can run does run; calls once made proceed
CallerProgress(c) ==
  \/ StartRegister(c) \/ StartList(c) \/ StartSetID(c) \/ StartEventRead(c)
  \/ StartEventRpc(c) \/ StartHbLock(c) \/ StartHbSpawn(c) \/ StartBgLock(c)
  \/ StartBgSpawn(c) \/ CloseReport(c) \/ CloseCancel(c) \/ CloseWait(c)

FairSpec ==
  /\ Spec
  /\ \A w \in Workers : WF_vars(WorkerStep(w))
  /\ \A c \in Callers : WF_vars(CallerProgress(c))

\* ------------------------------------------------------------- backoff
\* float64(baseInterval) * math.Pow(2, failures), followed until it passes
\* the largest Duration
RECURSIVE Scaled(_, _)
Scaled(x, n) == IF n = 0 \/ x > MaxDuration THEN x ELSE Scaled(2 * x, n - 1)

\* time.Duration(f): the value if it is representable; outside the int64
\* range the result depends on the platform (amd64 gives the smallest
\* int64, arm64 the largest)
ToDuration(x) == IF x <= MaxDuration THEN {x} ELSE {MinDuration, MaxDuration}

\* int64 addition wraps
Wrap(x) == ((x - MinDuration) % (2 * (MaxDuration + 1))) + MinDuration

\* time.Duration(float64(interval) * 0.25 * r) for r = k/16, truncated
Jitter(interval, k) ==
  LET ai == IF interval < 0 THEN 0 - interval ELSE interval
      ak == IF k < 0 THEN 0 - k ELSE k
      q == ai \div 64
      m == q * ak + (((ai - 64 * q) * ak) \div 64)
  IN IF (interval < 0) = (k < 0) THEN m ELSE 0 - m

\* backoff: every value it can return, over the jitter and the conversion
backoff(base, maxInterval, failures) ==
  IF failures <= 0 THEN {base}
  ELSE {LET capped == IF interval > maxInterval THEN maxInterval ELSE interval
            jittered == Wrap(capped + Jitter(capped, k))
        IN IF jittered < base THEN base ELSE jittered :
          interval \in ToDuration(Scaled(base, failures)), k \in JitterSteps}

\* ------------------------------------------------------------------ retry
\* retryWithBackoff, followed on its own with a fn that fails once its
\* context is canceled, as doRegister does.

CountUp(n, most) == IF n < most THEN n + 1 ELSE n

\* retryWithBackoff is called: var failures int
RetryCall(base, maxInterval) ==
  /\ retry.pc = "off"
  /\ retry' = [retry EXCEPT !.pc = "call", !.base = base, !.maxInterval = maxInterval]
  /\ rpc' = NoRpc
  /\ UNCHANGED <<outsideRetry, backoffCall>>

\* a retry that gives up after MaxFailures failures
FnWithAttemptLimit(ok) ==
  /\ retry.pc = "call"
  /\ retry.ctxDone => ~ok
  /\ IF ok
       THEN retry' = [retry EXCEPT !.pc = "returned", !.returned = "nil",
                                   !.invoked = CountUp(@, MaxFailures + 1)]
       ELSE \E wait \in backoff(retry.base, retry.maxInterval,
                                CountUp(retry.failures, MaxFailures)) :
              retry' = [retry EXCEPT
                 !.pc = IF retry.failures + 1 >= MaxFailures THEN "returned" ELSE "wait",
                 !.returned = IF retry.failures + 1 >= MaxFailures
                                THEN "failed" ELSE "none",
                 !.wait = wait,
                 !.failures = CountUp(@, MaxFailures),
                 !.invoked = CountUp(@, MaxFailures + 1)]
  /\ rpc' = NoRpc
  /\ UNCHANGED <<outsideRetry, backoffCall>>

\* retryWithBackoff: err := fn(ctx); return nil on success, otherwise
\* failures++ and wait := backoff(baseInterval, maxInterval, failures)
Fn(ok) ==
  /\ retry.pc = "call"
  /\ retry.ctxDone => ~ok
  /\ IF ok
       THEN retry' = [retry EXCEPT !.pc = "returned", !.returned = "nil",
                                   !.invoked = CountUp(@, MaxFailures + 1)]
       ELSE \E wait \in backoff(retry.base, retry.maxInterval,
                                CountUp(retry.failures, MaxFailures)) :
              retry' = [retry EXCEPT !.pc = "wait", !.wait = wait,
                                     !.failures = CountUp(@, MaxFailures),
                                     !.invoked = CountUp(@, MaxFailures + 1)]
  /\ rpc' = NoRpc
  /\ UNCHANGED <<outsideRetry, backoffCall>>

\* retryWithBackoff: select, case <-time.After(wait): the loop goes round.
\* With ctx canceled as well the select takes either case.
RetryWake ==
  /\ retry.pc = "wait"
  /\ retry' = [retry EXCEPT !.pc = "call", !.wait = 0]
  /\ rpc' = NoRpc
  /\ UNCHANGED <<outsideRetry, backoffCall>>

\* a retry that returns nil when its context is canceled
RetryDoneReturnsNil ==
  /\ retry.pc = "wait"
  /\ retry.ctxDone
  /\ retry' = [retry EXCEPT !.pc = "returned", !.returned = "nil", !.wait = 0]
  /\ rpc' = NoRpc
  /\ UNCHANGED <<outsideRetry, backoffCall>>

\* retryWithBackoff: select, case <-ctx.Done(): return ctx.Err()
RetryDone ==
  /\ retry.pc = "wait"
  /\ retry.ctxDone
  /\ retry' = [retry EXCEPT !.pc = "returned", !.returned = "canceled", !.wait = 0]
  /\ rpc' = NoRpc
  /\ UNCHANGED <<outsideRetry, backoffCall>>

\* the caller cancels ctx while retryWithBackoff runs
RetryCancel ==
  /\ retry.pc \in {"call", "wait"}
  /\ ~retry.ctxDone
  /\ retry' = [retry EXCEPT !.ctxDone = TRUE]
  /\ rpc' = NoRpc
  /\ UNCHANGED <<outsideRetry, backoffCall>>

NextRetry ==
  \/ \E i \in RetryIntervals : RetryCall(i[1], i[2])
  \/ \E ok \in BOOLEAN : Fn(ok)
  \/ RetryWake
  \/ RetryDone
  \/ RetryCancel

\* before a call of retryWithBackoff
InitRetry ==
  /\ NewClient /\ ~gracefulDegradation /\ ~disableHeartbeat /\ foreign = 0
  /\ LibOff

SpecRetry == InitRetry /\ [][NextRetry]_vars

\* fn returns, the timer of time.After fires, and a select with two ready
\* cases takes each of them sooner or later
FairSpecRetry ==
  /\ SpecRetry
  /\ WF_vars(\E ok \in BOOLEAN : Fn(ok))
  /\ WF_vars(RetryWake)
  /\ SF_vars(RetryDone)

\* one call of backoff returns one of its values
BackoffReturn ==
  /\ backoffCall.out = 0
  /\ \E out \in backoff(backoffCall.base, backoffCall.maxInterval,
                         backoffCall.failures) :
       backoffCall' = [backoffCall EXCEPT !.out = out]
  /\ rpc' = NoRpc
  /\ UNCHANGED <<outsideRetry, retry>>

NextBackoff == BackoffReturn

\* a call of backoff with base > 0, max >= base and failures >= 0
InitBackoff ==
  /\ NewClient /\ ~gracefulDegradation /\ ~disableHeartbeat /\ foreign = 0
  /\ HeartbeatOff /\ NewTransport /\ strategy = "exchange" /\ AuthOff
  /\ NewEngine /\ PolicyOn /\ NewFetcher /\ NoGlobal /\ NewSyncer
  /\ retry = IdleRetry
  /\ backoffCall \in [base : BackoffBases, maxInterval : BackoffMaxes,
                       failures : 0..MaxExponent, out : {0}]
  /\ backoffCall.maxInterval >= backoffCall.base

SpecBackoff == InitBackoff /\ [][NextBackoff]_vars

\* ----------------------------------------------------------- heartbeat
\* runHeartbeat, followed on its own: the loop's interval and failure count
\* a call of runHeartbeat with a configured interval
RunHeartbeat(interval) ==
  /\ hbPc = "off"
  /\ hbPc' = "init"
  /\ baseInterval' = interval
  /\ rpc' = NoRpc
  /\ UNCHANGED <<outsideHeartbeat, currentInterval, consecutiveFailures, hbCtxDone,
                 hbResult, prevFailures>>

\* runHeartbeat: the initial heartbeat, then the locals and the timer
HeartbeatFirst ==
  /\ hbPc = "init"
  /\ \E up \in BOOLEAN :
       /\ hbCtxDone => ~up
       /\ hbResult' = IF up THEN "ok" ELSE "fail"
  /\ rpc' = Rpc("Heartbeat", NoID, "")
  /\ currentInterval' = baseInterval
  /\ consecutiveFailures' = 0
  /\ hbPc' = "wait"
  /\ UNCHANGED <<outsideHeartbeat, baseInterval, hbCtxDone, prevFailures>>

\* a success that leaves the interval where the failures had put it
HeartbeatOkKeepsInterval ==
  /\ consecutiveFailures' = 0
  /\ currentInterval' = currentInterval

\* runHeartbeat: consecutiveFailures = 0; currentInterval = baseInterval
HeartbeatOk ==
  /\ consecutiveFailures' = 0
  /\ currentInterval' = baseInterval

\* runHeartbeat: consecutiveFailures++; currentInterval = backoff(...)
HeartbeatFailed ==
  /\ consecutiveFailures' = consecutiveFailures + 1
  /\ currentInterval' \in
       backoff(baseInterval, maxHeartbeatInterval, consecutiveFailures + 1)

\* runHeartbeat: select, case <-timer.C: one heartbeat, then timer.Reset
HeartbeatTick ==
  /\ hbPc = "wait"
  /\ \E up \in BOOLEAN :
       /\ hbCtxDone => ~up
       /\ ~up => consecutiveFailures < MaxFailures
       /\ hbResult' = IF up THEN "ok" ELSE "fail"
       /\ IF up THEN HeartbeatOk ELSE HeartbeatFailed
  /\ rpc' = Rpc("Heartbeat", NoID, "")
  /\ prevFailures' = consecutiveFailures
  /\ UNCHANGED <<outsideHeartbeat, hbPc, baseInterval, hbCtxDone>>

\* the context of runHeartbeat is canceled
HeartbeatCancel ==
  /\ hbPc \in {"init", "wait"}
  /\ ~hbCtxDone
  /\ hbCtxDone' = TRUE
  /\ rpc' = NoRpc
  /\ UNCHANGED <<outsideHeartbeat, hbPc, baseInterval, currentInterval,
                 consecutiveFailures, hbResult, prevFailures>>

\* runHeartbeat: select, case <-ctx.Done(): return
HeartbeatReturn ==
  /\ hbPc = "wait"
  /\ hbCtxDone
  /\ hbPc' = "done"
  /\ rpc' = NoRpc
  /\ UNCHANGED <<outsideHeartbeat, baseInterval, currentInterval, consecutiveFailures,
                 hbCtxDone, hbResult, prevFailures>>

NextHeartbeat ==
  \/ \E interval \in HeartbeatIntervals : RunHeartbeat(interval)
  \/ HeartbeatFirst
  \/ HeartbeatTick
  \/ HeartbeatCancel
  \/ HeartbeatReturn

\* a client with the default configuration whose worker runs runHeartbeat
InitHeartbeat ==
  /\ Init /\ ~gracefulDegradation /\ ~disableHeartbeat /\ foreign = 0

SpecHeartbeat == InitHeartbeat /\ [][NextHeartbeat]_vars

\* ------------------------------------------------- credential transports
\* The token-exchange transport and the Vault transport, followed on their
\* own: RoundTrip, the token cache and the acquisition of a fresh token.

\* a bypass that tests the Authorization header only
BypassOnAuthorizationOnly(kind) == kind = "authed"

\* RoundTrip: the request carries Authorization, or (token exchange) its URL
\* is the token endpoint
Bypass(kind) ==
  \/ kind = "authed"
  \/ strategy = "exchange" /\ kind = "tokenurl"

\* RoundTrip is called with a request (the requests are numbered in the
\* order of their calls)
RoundTrip(r, kind) ==
  /\ reqs[r].pc = "new"
  /\ \A q \in 1..(r - 1) : reqs[q].pc # "new"
  /\ kind = "tokenurl" => strategy = "exchange"
  /\ concurrent' = (concurrent /\ \A q \in Requests : reqs[q].pc # "done")
  /\ IF Bypass(kind)
       THEN reqs' = [reqs EXCEPT ![r].kind = kind, ![r].pc = "done", ![r].sent = "asis"]
       ELSE reqs' = [reqs EXCEPT ![r].kind = kind, ![r].pc = "lock"]
  /\ rpc' = NoRpc
  /\ UNCHANGED <<outsideTransport, strategy, tMu, token, expiry, vaultToken, vaultExp,
                 clock, exchanges, shortLived, staleSeen>>

\* a mutex that lets every request in
MutexIgnored == TRUE

\* t.mu.Lock() returns
MutexFree == tMu = NoRequest

\* a freshness test without the 30 s margin
FreshUntilExpiry(now) == token # NoToken /\ now < expiry

\* t.token != "" && now.Add(30*time.Second).Before(t.expiry)
Fresh(now) == token # NoToken /\ now + TokenBuffer < expiry

\* clone.Header.Set("Authorization", "Bearer "+token); t.base.RoundTrip(clone)
Forwarded(rec, tok) ==
  [rec EXCEPT !.pc = "done", !.sent = "bearer", !.bearer = tok, !.now = 0]

\* a fresh token arrived with its lifetime
Acquired(life) == shortLived' = (shortLived \/ life <= TokenBuffer)

\* a failed acquisition after which the request goes out without a token
AcquisitionFailedForwards(r, err) ==
  /\ reqs' = [reqs EXCEPT ![r].pc = "done", ![r].failed = TRUE, ![r].now = 0,
                          ![r].sent = "asis"]
  /\ tMu' = NoRequest
  /\ UNCHANGED <<token, expiry, shortLived>>

\* getToken returns an error: RoundTrip returns it, nothing is forwarded
AcquisitionFailed(r, err) ==
  /\ reqs' = [reqs EXCEPT ![r].pc = "done", ![r].failed = TRUE, ![r].now = 0]
  /\ tMu' = NoRequest
  /\ UNCHANGED <<token, expiry, shortLived>>

\* getToken / getOIDCToken: lock, read the clock, test the cache
getToken(r) ==
  /\ reqs[r].pc = "lock"
  /\ MutexFree
  /\ staleSeen' = (staleSeen \/ (token # NoToken /\ ~Fresh(clock)))
  /\ IF Fresh(clock)
       THEN /\ reqs' = [reqs EXCEPT ![r] = Forwarded(@, token)]
            /\ tMu' = NoRequest
       ELSE /\ reqs' = [reqs EXCEPT ![r].now = clock,
                           ![r].pc = IF strategy = "exchange" THEN "exchange" ELSE "v_ensure"]
            /\ tMu' = r
  /\ rpc' = NoRpc
  /\ UNCHANGED <<outsideTransport, strategy, token, expiry, vaultToken, vaultExp, clock,
                 exchanges, concurrent, shortLived>>

\* getToken -> exchange: POST to the token endpoint, then store and return
exchange(r) ==
  /\ reqs[r].pc = "exchange"
  /\ exchanges' = exchanges + 1
  /\ \E outcome \in RpcOutcomes, expiresIn \in Lifetimes :
       IF outcome = "ok"
         THEN /\ token' = exchanges + 1
              /\ expiry' = reqs[r].now + expiresIn
              /\ reqs' = [reqs EXCEPT ![r] = Forwarded(@, exchanges + 1)]
              /\ tMu' = NoRequest
              /\ Acquired(expiresIn)
              /\ rpc' = Rpc("TokenExchange", NoID, outcome)
         ELSE /\ AcquisitionFailed(r, outcome)
              /\ rpc' = Rpc("TokenExchange", NoID, outcome)
  /\ UNCHANGED <<outsideTransport, strategy, vaultToken, vaultExp, clock,
                 concurrent, staleSeen>>

\* a Vault token test without the 60 s margin
VaultFreshUntilExpiry(now) == vaultToken # NoToken /\ now < vaultExp

\* t.vaultToken != "" && time.Now().Add(60*time.Second).Before(t.vaultExp)
VaultFresh(now) == vaultToken # NoToken /\ now + VaultBuffer < vaultExp

\* ensureVaultToken: is the cached Vault token good for another 60 s
ensureVaultToken(r) ==
  /\ reqs[r].pc = "v_ensure"
  /\ reqs' = [reqs EXCEPT ![r].pc =
       IF VaultFresh(clock) THEN "v_oidc" ELSE "v_login"]
  /\ rpc' = NoRpc
  /\ UNCHANGED <<outsideTransport, strategy, tMu, token, expiry, vaultToken, vaultExp,
                 clock, exchanges, tokenLog>>

\* loginKubernetes / loginAppRole -> vaultLogin; "readfile" is the service
\* account token that cannot be read, where no login request is made
vaultLogin(r) ==
  /\ reqs[r].pc = "v_login"
  /\ \E outcome \in RpcOutcomes \cup {"readfile"}, lease \in Leases :
       /\ IF outcome = "ok"
            THEN /\ vaultToken' = 1
                 /\ vaultExp' = clock + lease
                 /\ reqs' = [reqs EXCEPT ![r].pc = "v_oidc"]
                 /\ UNCHANGED <<tMu, token, expiry, shortLived>>
            ELSE /\ AcquisitionFailed(r, outcome)
                 /\ UNCHANGED <<vaultToken, vaultExp>>
       /\ rpc' = IF outcome = "readfile" THEN NoRpc
                 ELSE Rpc("VaultLogin", NoID, outcome)
  /\ UNCHANGED <<outsideTransport, strategy, clock, exchanges, concurrent, staleSeen>>

\* requestOIDCToken, then getOIDCToken stores and returns the token
requestOIDCToken(r) ==
  /\ reqs[r].pc = "v_oidc"
  /\ exchanges' = exchanges + 1
  /\ \E outcome \in RpcOutcomes, ttl \in Lifetimes :
       IF outcome = "ok"
         THEN /\ token' = exchanges + 1
              /\ expiry' = clock + ttl
              /\ reqs' = [reqs EXCEPT ![r] = Forwarded(@, exchanges + 1)]
              /\ tMu' = NoRequest
              /\ Acquired(ttl)
              /\ rpc' = Rpc("VaultOIDC", NoID, outcome)
         ELSE /\ AcquisitionFailed(r, outcome)
              /\ rpc' = Rpc("VaultOIDC", NoID, outcome)
  /\ UNCHANGED <<outsideTransport, strategy, vaultToken, vaultExp, clock,
                 concurrent, staleSeen>>

\* a second passes
ClockTick ==
  /\ clock < MaxClock
  /\ clock' = clock + 1
  /\ rpc' = NoRpc
  /\ UNCHANGED <<outsideTransport, strategy, tMu, token, expiry, vaultToken, vaultExp,
                 reqs, exchanges, tokenLog>>

NextTransport ==
  \/ \E r \in Requests, kind \in RequestKinds : RoundTrip(r, kind)
  \/ \E r \in Requests : getToken(r)
  \/ \E r \in Requests : exchange(r)
  \/ \E r \in Requests : ensureVaultToken(r)
  \/ \E r \in Requests : vaultLogin(r)
  \/ \E r \in Requests : requestOIDCToken(r)
  \/ ClockTick

\* one credential transport of either strategy, used by concurrent requests
InitTransport ==
  /\ NewClient /\ ~gracefulDegradation /\ ~disableHeartbeat /\ foreign = 0
  /\ HeartbeatOff /\ NewTransport /\ AuthOff /\ NewEngine /\ PolicyOn /\ NewFetcher
  /\ NoGlobal /\ NewSyncer /\ RetryOff

SpecTransport == InitTransport /\ [][NextTransport]_vars

\* ------------------------------------------------------- authentication
\* NewClient's choice of transport, followed on its own.

\* decodeToken: nil for the empty string, for what is not base64, for what is
\* not JSON and for JSON with neither api_url nor vault_addr
Nil == [nil |-> TRUE, apiURL |-> FALSE, vaultAddr |-> FALSE, authMethod |-> "",
        oidc |-> FALSE]
decodeToken(tok) ==
  IF tok.text = "" \/ tok.enc # "json" \/ (~tok.apiURL /\ ~tok.vaultAddr)
    THEN Nil
    ELSE [nil |-> FALSE, apiURL |-> tok.apiURL, vaultAddr |-> tok.vaultAddr,
          authMethod |-> tok.authMethod, oidc |-> tok.oidc]

Built(transport, method, bearer, source) ==
  [state |-> "ok", err |-> "", transport |-> transport, method |-> method,
   bearer |-> bearer, source |-> source]

\* NewClient: the static key, in the order option, DOME_API_KEY, DOME_TOKEN
staticKey ==
  LET apiKey == IF optAPIKey # "" THEN optAPIKey
                ELSE IF envAPIKey # "" THEN envAPIKey ELSE envToken
      source == IF optAPIKey # "" THEN "WithAPIKey"
                ELSE IF envAPIKey # "" THEN "DOME_API_KEY" ELSE "DOME_TOKEN"
  IN IF apiKey = ""
       THEN [NotBuilt EXCEPT !.state = "error", !.err = "authentication required"]
       ELSE Built("bearer", "", apiKey, source)

\* NewClient: the transport it builds, or the error it returns
newTransport ==
  LET credToken == IF optCredentials.text # "" THEN optCredentials ELSE envAgentToken
      source == IF optCredentials.text # "" THEN "WithCredentials" ELSE "DOME_AGENT_TOKEN"
      creds == decodeToken(credToken)
  IN IF credToken.text = "" \/ creds.nil THEN staticKey
     ELSE IF creds.apiURL /\ creds.authMethod = "approle"
       THEN Built("exchange", "approle", "", source)
     ELSE IF creds.vaultAddr /\ creds.oidc
       THEN Built("vault",
                  IF creds.authMethod = "kubernetes" THEN "kubernetes" ELSE "approle",
                  "", source)
     ELSE Built("bearer", "", credToken.text, source)

\* a call of NewClient with these options in this environment
Construct ==
  /\ built.state = "none"
  /\ built' = newTransport
  /\ rpc' = NoRpc
  /\ UNCHANGED <<outsideAuth, optCredentials, optAPIKey, envAgentToken, envAPIKey,
                 envToken>>

NextAuth == Construct

\* NewClient called with any options, in any environment
InitAuth ==
  /\ NewClient /\ ~gracefulDegradation /\ ~disableHeartbeat /\ foreign = 0
  /\ HeartbeatOff /\ NewTransport /\ strategy = "exchange"
  /\ optCredentials \in Blobs("cred-opt") \cup {NoCredential}
  /\ optAPIKey \in {"", "key-opt"}
  /\ envAgentToken \in Blobs("cred-env") \cup {NoCredential}
  /\ envAPIKey \in {"", "key-env"}
  /\ envToken \in {"", "key-dome"}
  /\ built = NotBuilt
  /\ NewEngine /\ PolicyOn /\ NewFetcher /\ NoGlobal /\ NewSyncer /\ RetryOff

SpecAuth == InitAuth /\ [][NextAuth]_vars

\* -------------------------------------------------------- policy engine
\* Engine.LoadBundle and Engine.Evaluate, followed on their own.

\* LoadBundle is called: newPolicySet := cedar.NewPolicySet()
LoadBundle(l, policies) ==
  /\ loads[l].pc = "idle"
  /\ \A k \in 1..(l - 1) : loads[k].pc # "idle"
  /\ loads' = [loads EXCEPT ![l] =
       [IdleLoad EXCEPT !.pc = "parse", !.policies = policies,
                        !.todo = {f \in Files : policies[f] # "absent"}]]
  /\ rpc' = NoRpc
  /\ UNCHANGED <<outsideEngine, disablePolicy, policySet, policyVersion, eWriter,
                 eReaders, evals, installed>>

\* a parse error after which the policies parsed so far are installed
ParseFailedInstalls(l) ==
  /\ loads' = [loads EXCEPT ![l].pc = "done", ![l].err = TRUE]
  /\ policySet' = loads[l].newPolicySet
  /\ policyVersion' = l
  /\ installed' = installed \cup {<<loads[l].newPolicySet, l>>}

\* LoadBundle: return fmt.Errorf("parse %s: %w", filename, err)
ParseFailed(l) ==
  /\ loads' = [loads EXCEPT ![l].pc = "done", ![l].err = TRUE]
  /\ UNCHANGED <<policySet, policyVersion, installed>>

\* LoadBundle: one round of the loop over the entries, in map order
ParseFile(l) ==
  /\ loads[l].pc = "parse"
  /\ \E f \in loads[l].todo :
       IF loads[l].policies[f] = "bad"
         THEN ParseFailed(l)
         ELSE /\ loads' = [loads EXCEPT ![l].todo = @ \ {f},
                                       ![l].newPolicySet = @ \cup {f}]
              /\ UNCHANGED <<policySet, policyVersion, installed>>
  /\ rpc' = NoRpc
  /\ UNCHANGED <<outsideEngine, disablePolicy, eWriter, eReaders, evals>>

\* LoadBundle: the loop is over; e.mu.Lock()
EngineLock(l) ==
  /\ loads[l].pc = "parse"
  /\ loads[l].todo = {}
  /\ eWriter = NoLoad /\ eReaders = {}
  /\ eWriter' = l
  /\ loads' = [loads EXCEPT ![l].pc = "set"]
  /\ rpc' = NoRpc
  /\ UNCHANGED <<outsideEngine, disablePolicy, policySet, policyVersion, eReaders, evals,
                 installed>>

\* LoadBundle: e.policySet = newPolicySet
SetPolicySet(l) ==
  /\ loads[l].pc = "set"
  /\ policySet' = loads[l].newPolicySet
  /\ loads' = [loads EXCEPT ![l].pc = "version"]
  /\ rpc' = NoRpc
  /\ UNCHANGED <<outsideEngine, disablePolicy, policyVersion, eWriter, eReaders, evals,
                 installed>>

\* LoadBundle: e.policyVersion = version; e.mu.Unlock(); return nil
SetVersion(l) ==
  /\ loads[l].pc = "version"
  /\ policyVersion' = l
  /\ installed' = installed \cup {<<policySet, l>>}
  /\ eWriter' = NoLoad
  /\ loads' = [loads EXCEPT ![l].pc = "done"]
  /\ rpc' = NoRpc
  /\ UNCHANGED <<outsideEngine, disablePolicy, policySet, eReaders, evals>>

\* a read lock that does not wait for the writer
ReadLockOpen == TRUE

\* e.mu.RLock() returns
ReadLockFree == eWriter = NoLoad

\* Check that answers from the engine whenever policy is enabled
FailOpenWhenDisabled == disablePolicy

\* Check: c.config.disablePolicy || !c.policyEngine.HasPolicies()
FailOpen == disablePolicy \/ policySet = {}

\* Check up to its call of Evaluate; PolicyCount reads the set under RLock
Check(e) ==
  /\ evals[e].pc = "idle"
  /\ \A k \in 1..(e - 1) : evals[k].pc # "idle"
  /\ disablePolicy \/ ReadLockFree
  /\ IF FailOpen
       THEN evals' = [evals EXCEPT ![e] =
              [IdleEval EXCEPT !.pc = "done", !.allow = TRUE,
                               !.reason = "no policy bundle loaded"]]
       ELSE evals' = [evals EXCEPT ![e].pc = "evaluate"]
  /\ rpc' = NoRpc
  /\ UNCHANGED <<outsideEngine, disablePolicy, policySet, policyVersion, eWriter,
                 eReaders, loads, installed>>

\* Evaluate is called, by Check or directly: e.mu.RLock()
Evaluate(e) ==
  /\ \/ evals[e].pc = "evaluate"
     \/ evals[e].pc = "idle" /\ \A k \in 1..(e - 1) : evals[k].pc # "idle"
  /\ ReadLockFree
  /\ eReaders' = eReaders \cup {e}
  /\ evals' = [evals EXCEPT ![e].pc = "authorize"]
  /\ rpc' = NoRpc
  /\ UNCHANGED <<outsideEngine, disablePolicy, policySet, policyVersion, eWriter, loads,
                 installed>>

\* Evaluate: cedar.Authorize(e.policySet, entities, req); a policy of the
\* bundles permits the request, and no policy means deny
Authorize(e) ==
  /\ evals[e].pc = "authorize"
  /\ evals' = [evals EXCEPT ![e].pc = "decide", ![e].set = policySet,
                             ![e].allow = (policySet # {}), ![e].authorized = TRUE]
  /\ rpc' = NoRpc
  /\ UNCHANGED <<outsideEngine, disablePolicy, policySet, policyVersion, eWriter,
                 eReaders, loads, installed>>

\* the reason of a decision no policy contributed an error to
extractReason(allow) ==
  IF allow THEN "allowed by policy" ELSE "denied: no matching permit policy"

\* Evaluate: the Decision with PolicyVersion: e.policyVersion; RUnlock
Decide(e) ==
  /\ evals[e].pc = "decide"
  /\ evals' = [evals EXCEPT ![e].pc = "done", ![e].version = policyVersion,
                             ![e].reason = extractReason(evals[e].allow)]
  /\ eReaders' = eReaders \ {e}
  /\ rpc' = NoRpc
  /\ UNCHANGED <<outsideEngine, disablePolicy, policySet, policyVersion, eWriter, loads,
                 installed>>

NextEngine ==
  \/ \E l \in Loads, policies \in Bundles : LoadBundle(l, policies)
  \/ \E l \in Loads : ParseFile(l)
  \/ \E l \in Loads : EngineLock(l)
  \/ \E l \in Loads : SetPolicySet(l)
  \/ \E l \in Loads : SetVersion(l)
  \/ \E e \in Evals : Check(e)
  \/ \E e \in Evals : Evaluate(e)
  \/ \E e \in Evals : Authorize(e)
  \/ \E e \in Evals : Decide(e)

\* one engine with concurrent LoadBundle and Evaluate calls
InitEngine ==
  /\ NewClient /\ ~gracefulDegradation /\ ~disableHeartbeat /\ foreign = 0
  /\ HeartbeatOff /\ NewTransport /\ strategy = "exchange" /\ AuthOff /\ NewEngine
  /\ disablePolicy \in BOOLEAN
  /\ NewFetcher /\ NoGlobal /\ NewSyncer /\ RetryOff

SpecEngine == InitEngine /\ [][NextEngine]_vars

\* --------------------------------------------------------- policy syncer
\* Syncer.syncOnce, one call after the other as Start and loop make them:
\* Fetcher.Fetch, then Engine.LoadBundle when a bundle came back.

\* the sync before call l has returned
SyncFinished(l) == IF l = 1 THEN TRUE ELSE fetches[l - 1].pc = "done"

\* Fetch up to f.httpClient.Do(req): If-None-Match is set from f.etag
FetchSend(l) ==
  /\ fetches[l].pc = "idle"
  /\ SyncFinished(l)
  /\ fetches' = [fetches EXCEPT ![l].pc = "sent", ![l].ifNoneMatch = etag]
  /\ rpc' = Rpc("PolicyBundle", NoID, etag)
  /\ UNCHANGED <<outsideFetcher, policyVars, etag>>

\* a Fetch that treats 404 as an error
FetchResultNotFoundFails(resp) ==
  IF resp.status = 200 /\ resp.body.decodes
    THEN [bundle |-> <<resp.body.policies>>, changed |-> TRUE, err |-> FALSE]
    ELSE [bundle |-> NoBundle, changed |-> FALSE, err |-> resp.status # 304]

\* a Fetch that remembers the ETag of every response
RememberAnyStatus(resp) == IF resp.etag # "" THEN resp.etag ELSE etag

\* Fetch: f.etag after the response; only a 200 whose body was read and
\* decoded reaches the update
Remember(resp) ==
  IF resp.status = 200 /\ resp.body.decodes /\ resp.etag # ""
    THEN resp.etag ELSE etag

\* Fetch: the switch on resp.StatusCode, and the error of Do
FetchResult(resp) ==
  CASE resp = NoResponse -> [bundle |-> NoBundle, changed |-> FALSE, err |-> TRUE]
    [] resp.status \in {304, 404} ->
         [bundle |-> NoBundle, changed |-> FALSE, err |-> FALSE]
    [] resp.status = 200 /\ ~resp.body.decodes ->
         [bundle |-> NoBundle, changed |-> FALSE, err |-> TRUE]
    [] resp.status = 200 /\ resp.body.decodes ->
         [bundle |-> <<resp.body.policies>>, changed |-> TRUE, err |-> FALSE]
    [] OTHER -> [bundle |-> NoBundle, changed |-> FALSE, err |-> TRUE]

\* Fetch from the response to its return
FetchReturn(l, resp) ==
  /\ fetches[l].pc = "sent"
  /\ fetches' = [fetches EXCEPT ![l] =
       [pc |-> "returned", ifNoneMatch |-> fetches[l].ifNoneMatch, resp |-> resp,
        bundle |-> FetchResult(resp).bundle, changed |-> FetchResult(resp).changed,
        err |-> FetchResult(resp).err, syncErr |-> FALSE]]
  /\ etag' = Remember(resp)
  /\ rpc' = NoRpc
  /\ UNCHANGED <<outsideFetcher, policyVars>>

\* syncOnce after Fetch: return on an error or when nothing changed,
\* otherwise call s.engine.LoadBundle(policies, result.Bundle.Version)
syncOnce(l) ==
  /\ fetches[l].pc = "returned"
  /\ IF fetches[l].err \/ ~fetches[l].changed \/ fetches[l].bundle = NoBundle
       THEN /\ fetches' = [fetches EXCEPT ![l].pc = "done",
                                           ![l].syncErr = fetches[l].err]
            /\ UNCHANGED loads
       ELSE /\ fetches' = [fetches EXCEPT ![l].pc = "loading"]
            /\ loads' = [loads EXCEPT ![l] =
                 [IdleLoad EXCEPT !.pc = "parse", !.policies = fetches[l].bundle[1],
                                  !.todo = Files]]
  /\ rpc' = NoRpc
  /\ UNCHANGED <<outsideFetcher, etag, policySet, policyVersion, eWriter, eReaders,
                 evals, installed, disablePolicy>>

\* syncOnce: LoadBundle has returned
syncReturn(l) ==
  /\ fetches[l].pc = "loading"
  /\ loads[l].pc = "done"
  /\ fetches' = [fetches EXCEPT ![l].pc = "done", ![l].syncErr = loads[l].err]
  /\ rpc' = NoRpc
  /\ UNCHANGED <<outsideFetcher, policyVars, etag>>

NextFetcher ==
  \/ \E l \in Loads : FetchSend(l)
  \/ \E l \in Loads, resp \in Responses : FetchReturn(l, resp)
  \/ \E l \in Loads : syncOnce(l)
  \/ \E l \in Loads : ParseFile(l)
  \/ \E l \in Loads : EngineLock(l)
  \/ \E l \in Loads : SetPolicySet(l)
  \/ \E l \in Loads : SetVersion(l)
  \/ \E l \in Loads : syncReturn(l)

\* one syncer with its fetcher and engine
InitFetcher ==
  /\ NewClient /\ ~gracefulDegradation /\ ~disableHeartbeat /\ foreign = 0
  /\ HeartbeatOff /\ NewTransport /\ strategy = "exchange" /\ AuthOff
  /\ NewEngine /\ PolicyOn /\ NewFetcher /\ NoGlobal /\ NewSyncer /\ RetryOff

SpecFetcher == InitFetcher /\ [][NextFetcher]_vars

\* Syncer.Start, Syncer.loop and Syncer.Stop around syncOnce. The client is
\* the only user of the syncer: startPolicySyncer holds c.mu from NewSyncer
\* to the return of Start and Close holds it around Stop, so Stop is called
\* after Start has returned, and once.

\* Start is called: the initial syncOnce begins
Start ==
  /\ syncer.start = "idle"
  /\ syncer' = [syncer EXCEPT !.start = "sync", !.calls = 1]
  /\ rpc' = NoRpc
  /\ UNCHANGED outsideSyncer

\* a Start that gives up when the initial sync has failed
StartAbortsOnError ==
  /\ syncer.start = "sync"
  /\ fetches[1].pc = "done"
  /\ syncer' = IF fetches[1].syncErr
                 THEN [syncer EXCEPT !.start = "returned"]
                 ELSE [syncer EXCEPT !.start = "returned", !.wg = 1, !.loop = "select"]
  /\ rpc' = NoRpc
  /\ UNCHANGED outsideSyncer

\* Start: the error, if any, is logged; s.wg.Add(1); go s.loop(); return
StartReturns ==
  /\ syncer.start = "sync"
  /\ fetches[1].pc = "done"
  /\ syncer' = [syncer EXCEPT !.start = "returned", !.wg = 1, !.loop = "select"]
  /\ rpc' = NoRpc
  /\ UNCHANGED outsideSyncer

\* the ticker of the loop fires; ticker.C holds one tick at most
Tick ==
  /\ syncer.loop \in {"select", "sync"}
  /\ ~syncer.tick
  /\ syncer.calls < MaxLoads
  /\ syncer' = [syncer EXCEPT !.tick = TRUE]
  /\ rpc' = NoRpc
  /\ UNCHANGED outsideSyncer

\* loop: select, case <-ticker.C: syncOnce begins. With stopCh closed as
\* well the select takes either case.
LoopTick ==
  /\ syncer.loop = "select"
  /\ syncer.tick
  /\ syncer.calls < MaxLoads
  /\ syncer' = [syncer EXCEPT !.loop = "sync", !.tick = FALSE, !.calls = @ + 1]
  /\ rpc' = NoRpc
  /\ UNCHANGED outsideSyncer

\* a loop that ends when a sync has failed
LoopEndsOnError ==
  /\ syncer.loop = "sync"
  /\ fetches[syncer.calls].pc = "done"
  /\ syncer' = IF fetches[syncer.calls].syncErr
                 THEN [syncer EXCEPT !.loop = "exited", !.wg = 0]
                 ELSE [syncer EXCEPT !.loop = "select"]
  /\ rpc' = NoRpc
  /\ UNCHANGED outsideSyncer

\* loop: syncOnce has returned, its error is logged, back to the select
LoopSynced ==
  /\ syncer.loop = "sync"
  /\ fetches[syncer.calls].pc = "done"
  /\ syncer' = [syncer EXCEPT !.loop = "select"]
  /\ rpc' = NoRpc
  /\ UNCHANGED outsideSyncer

\* loop: select, case <-s.stopCh: return; the deferred s.wg.Done()
LoopStop ==
  /\ syncer.loop = "select"
  /\ syncer.stopCh = "closed"
  /\ syncer' = [syncer EXCEPT !.loop = "exited", !.wg = 0]
  /\ rpc' = NoRpc
  /\ UNCHANGED outsideSyncer

\* Stop is called: close(s.stopCh)
Stop ==
  /\ syncer.stop = "idle"
  /\ syncer.start = "returned"
  /\ syncer' = [syncer EXCEPT !.stop = "waiting", !.stopCh = "closed",
                              !.stopAt = syncer.loop]
  /\ rpc' = NoRpc
  /\ UNCHANGED outsideSyncer

\* a Stop that does not wait for the loop
StopReturnsAtOnce ==
  /\ syncer.stop = "waiting"
  /\ syncer' = [syncer EXCEPT !.stop = "returned"]
  /\ rpc' = NoRpc
  /\ UNCHANGED outsideSyncer

\* Stop: s.wg.Wait() returns
StopReturns ==
  /\ syncer.stop = "waiting"
  /\ syncer.wg = 0
  /\ syncer' = [syncer EXCEPT !.stop = "returned"]
  /\ rpc' = NoRpc
  /\ UNCHANGED outsideSyncer

\* syncOnce -> Fetch, for the syncs that Start and the loop have begun
SyncerFetch(l) ==
  /\ l <= syncer.calls
  /\ FetchSend(l)

NextSyncer ==
  \/ Start
  \/ StartReturns
  \/ Tick
  \/ LoopTick
  \/ LoopSynced
  \/ LoopStop
  \/ Stop
  \/ StopReturns
  \/ \E l \in Loads : SyncerFetch(l)
  \/ \E l \in Loads, resp \in Responses : FetchReturn(l, resp)
  \/ \E l \in Loads : syncOnce(l)
  \/ \E l \in Loads : ParseFile(l)
  \/ \E l \in Loads : EngineLock(l)
  \/ \E l \in Loads : SetPolicySet(l)
  \/ \E l \in Loads : SetVersion(l)
  \/ \E l \in Loads : syncReturn(l)

\* the syncer of one client, from NewSyncer on
InitSyncer == InitFetcher

SpecSyncer == InitSyncer /\ [][NextSyncer]_vars

\* ------------------------------------------------------ package functions
\* Init, Shutdown, Check, Middleware and Register on the package-level client,
\* called from two goroutines. The clients are followed only as far as the
\* package sees them: created, closed, and whether a worker runs.

\* a mutex that lets every caller in
GlobalMuOpen == TRUE

\* globalMu.Lock() returns
GlobalMuFree == globalMu = NoGoroutine

\* Client.Close: the worker, if there is one, is canceled and waited for
Close(k) == [state |-> "closed", worker |-> FALSE, stopped |-> created[k].worker]

Returned(g, result) == [IdleGoroutine EXCEPT !.ret = result]

\* Init, Shutdown: globalMu.Lock()
GlobalLock(g, op) ==
  /\ goroutines[g].pc = "idle"
  /\ op \in {"Init", "Shutdown"}
  /\ GlobalMuFree
  /\ globalMu' = g
  /\ goroutines' = [goroutines EXCEPT ![g].op = op, ![g].pc = "close"]
  /\ rpc' = NoRpc
  /\ UNCHANGED <<outsideGlobal, globalClient, created>>

\* an Init that closes the old client and goes on holding it
InitCloseKeepsHolder(g) ==
  /\ IF globalClient # NoClient
       THEN created' = [created EXCEPT ![globalClient] = Close(globalClient)]
       ELSE UNCHANGED created
  /\ UNCHANGED globalClient
  /\ goroutines' = [goroutines EXCEPT ![g].pc = "new"]

\* an Init that drops the old client without closing it
InitDropsOld(g) ==
  /\ globalClient' = NoClient
  /\ goroutines' = [goroutines EXCEPT ![g].pc = "new"]
  /\ UNCHANGED created

\* Init: if globalClient != nil { _ = globalClient.Close(); globalClient = nil }
InitClose(g) ==
  /\ IF globalClient # NoClient
       THEN created' = [created EXCEPT ![globalClient] = Close(globalClient)]
       ELSE UNCHANGED created
  /\ globalClient' = NoClient
  /\ goroutines' = [goroutines EXCEPT ![g].pc = "new"]

\* Init up to NewClient
InitReplace(g) ==
  /\ goroutines[g].op = "Init" /\ goroutines[g].pc = "close"
  /\ InitClose(g)
  /\ rpc' = NoRpc
  /\ UNCHANGED <<outsideGlobal, globalMu>>

\* Init: c, err := NewClient(opts...); globalClient = c; the deferred Unlock
InitNew(g, ok) ==
  /\ goroutines[g].op = "Init" /\ goroutines[g].pc = "new"
  /\ IF ok
       THEN \E k \in Clients :
              /\ created[k].state = "none"
              /\ \A j \in 1..(k - 1) : created[j].state # "none"
              /\ created' = [created EXCEPT ![k].state = "open"]
              /\ globalClient' = k
              /\ goroutines' = [goroutines EXCEPT ![g] =
                    Returned(g, [NoReturn EXCEPT !.op = "Init", !.client = k])]
       ELSE /\ goroutines' = [goroutines EXCEPT ![g] =
                    Returned(g, [NoReturn EXCEPT !.op = "Init",
                                                 !.err = "authentication required"])]
            /\ UNCHANGED <<globalClient, created>>
  /\ globalMu' = IF globalMu = g THEN NoGoroutine ELSE globalMu
  /\ rpc' = NoRpc
  /\ UNCHANGED outsideGlobal

\* Shutdown after the lock: close and forget the client if there is one
Shutdown(g) ==
  /\ goroutines[g].op = "Shutdown" /\ goroutines[g].pc = "close"
  /\ IF globalClient # NoClient
       THEN created' = [created EXCEPT ![globalClient] = Close(globalClient)]
       ELSE UNCHANGED created
  /\ globalClient' = NoClient
  /\ goroutines' = [goroutines EXCEPT ![g] =
       Returned(g, [NoReturn EXCEPT !.op = "Shutdown", !.client = globalClient])]
  /\ globalMu' = IF globalMu = g THEN NoGoroutine ELSE globalMu
  /\ rpc' = NoRpc
  /\ UNCHANGED outsideGlobal

\* a package that answers every call without a client with an error
NotInitializedAlwaysFails(op) ==
  [NoReturn EXCEPT !.op = op, !.err = "client not initialized"]

\* what a call returns when getGlobalClient fails: Check and Register return
\* the error, the Middleware handler calls next.ServeHTTP
NotInitialized(op) ==
  IF op = "Middleware"
    THEN [NoReturn EXCEPT !.op = op, !.next = TRUE]
    ELSE [NoReturn EXCEPT !.op = op, !.err = "client not initialized"]

\* Check, Middleware's handler, Register: c, err := getGlobalClient()
getGlobalClient(g, op) ==
  /\ goroutines[g].pc = "idle"
  /\ op \in {"Check", "Middleware", "Register"}
  /\ GlobalMuFree
  /\ IF globalClient = NoClient
       THEN goroutines' = [goroutines EXCEPT ![g] = Returned(g, NotInitialized(op))]
       ELSE goroutines' = [goroutines EXCEPT ![g].op = op, ![g].pc = "call",
                                              ![g].ref = globalClient]
  /\ rpc' = NoRpc
  /\ UNCHANGED <<outsideGlobal, globalMu, globalClient, created>>

\* the method of the client that getGlobalClient returned: Register leaves a
\* worker running, Check answers, the handler of c.Middleware goes on to next
ClientCall(g) ==
  /\ goroutines[g].pc = "call"
  /\ created' = IF goroutines[g].op = "Register"
                  THEN [created EXCEPT ![goroutines[g].ref].worker = TRUE]
                  ELSE created
  /\ goroutines' = [goroutines EXCEPT ![g] =
       Returned(g, [NoReturn EXCEPT !.op = goroutines[g].op,
                                    !.next = (goroutines[g].op = "Middleware"),
                                    !.client = goroutines[g].ref])]
  /\ rpc' = NoRpc
  /\ UNCHANGED <<outsideGlobal, globalMu, globalClient>>

NextGlobal ==
  \/ \E g \in Goroutines, op \in GlobalOps : GlobalLock(g, op)
  \/ \E g \in Goroutines : InitReplace(g)
  \/ \E g \in Goroutines, ok \in BOOLEAN : InitNew(g, ok)
  \/ \E g \in Goroutines : Shutdown(g)
  \/ \E g \in Goroutines, op \in GlobalOps : getGlobalClient(g, op)
  \/ \E g \in Goroutines : ClientCall(g)

\* the package with no client yet
InitGlobal ==
  /\ NewClient /\ ~gracefulDegradation /\ ~disableHeartbeat /\ foreign = 0
  /\ HeartbeatOff /\ NewTransport /\ strategy = "exchange" /\ AuthOff
  /\ NewEngine /\ PolicyOn /\ NewFetcher /\ NoGlobal /\ NewSyncer /\ RetryOff

SpecGlobal == InitGlobal /\ [][NextGlobal]_vars

\* ================================================================ claims

\* C1: auth events queued while there was no agent-id are dispatched when the
\* agent-id is set: once the agent-id is non-empty the pending queue is empty.
C1_QueueDrainedOnceRegistered ==
  agentID # NoID => pendingAuthEvents = <<>>

\* C2: auth-event ReportEvents reach the control plane in the order the
\* transport produced them, per agent-id.
C2_AuthEventsArriveInOrder ==
  \A i, j \in 1..Len(authSent) :
    (i < j /\ authSent[i].agent = authSent[j].agent) => authSent[i].seq < authSent[j].seq

\* C3: the handover never deadlocks: a caller that holds the mutex and waits
\* on the completion channel never waits for a worker that is itself waiting
\* for the mutex.
WaitingOnWorker(c) ==
  /\ mu = c
  /\ callers[c].pc \in {"s_hb_wait", "s_bg_wait", "c_wait"}
  /\ cancel # NoWorker
WorkerNeedsMutex(w) == workers[w].pc \in {"reg_setid", "reg_getid"}
C3_HandoverNeverDeadlocks ==
  \A c \in Callers : WaitingOnWorker(c) => ~WorkerNeedsMutex(stopped)

\* C4: after Close has returned, and until a Start begins, no worker is alive
\* and no Heartbeat or RegisterAgent RPC is issued.
C4_NoWorkerAfterClose ==
  quietCloses > 0 =>
    /\ AliveWorkers = {}
    /\ rpc.kind \notin {"Heartbeat", "RegisterAgent"}
C4_Witness ==
  /\ quietCloses > 0
  /\ ret.op = "Close"
  /\ \E w \in Workers :
       workers[w].pc = "done" /\ workers[w].kind = "hb" /\ workers[w].cancelled

\* C5: a Close called after a Close has returned, no Start in between,
\* returns nil at once: no RPC, no cancel, no wait, no syncer stop, and the
\* client state stays what the first Close left.
IsCloseCall(c) ==
  /\ callers[c].pc = "idle"
  /\ calls' = calls + 1
  /\ \/ callers'[c].op = "Close"
     \/ (callers'[c].pc = "idle" /\ ret'.op = "Close" /\ ret'.by = c)
C5_SecondCloseDoesNothing ==
  [][\A c \in Callers :
       (quietCloses > 0 /\ IsCloseCall(c)) =>
          /\ callers'[c].pc = "idle"
          /\ ret'.err = "nil"
          /\ rpc'.kind = "none"
          /\ UNCHANGED <<clientVars, workerVars, eventVars, backendVars>>]_vars
C5_Witness ==
  /\ quietCloses = 2
  /\ ret.op = "Close"
  /\ \E w \in Workers : workers[w].pc = "done" /\ workers[w].cancelled

\* C6: at most one worker is alive, and a worker exists only if every worker
\* created before it was canceled, has returned and has closed its channel.
C6_AtMostOneWorker ==
  /\ Cardinality(AliveWorkers) <= 1
  /\ \A w \in Workers : workers[w].pc # "unborn" =>
       \A v \in 1..(w - 1) :
          /\ workers[v].pc = "done"
          /\ workers[v].cancelled
          /\ chanClosed[v]
C6_Witness ==
  \E w \in Workers : w > 1 /\ Alive(w) /\ workers[w - 1].pc = "done"

\* C7: a Start for a name, to which the control plane answered (every RPC of
\* the call got a response), succeeds and returns the agent-id the control
\* plane holds for that name; so two successive Starts return the same id.
C7_StartIdempotent ==
  (ret.op = "Start" /\ ret.cause \notin {"name", "register", "list"}) =>
     /\ ret.err = "nil"
     /\ ret.id # NoID
     /\ registry[ret.name] # 0
     /\ ret.id = AgentIds[registry[ret.name]]

\* C8 as stated: under graceful degradation a Start whose registration fails
\* returns the placeholder and nil, leaves AgentID() empty and launches
\* exactly one background retry worker.
DegradedReturn(c) == callers[c].pc = "s_bg_wait" /\ callers'[c].pc = "idle"
LaunchesOneRetryWorker ==
  /\ nextWorker' = nextWorker + 1
  /\ workers'[nextWorker'].kind = "reg"
  /\ workers'[nextWorker'].pc = "spawned"
  /\ AliveWorkers' = {nextWorker'}
FailingStartStep(c) ==
  /\ callers[c].pc \in {"s_register", "s_list", "s_bg_lock", "s_bg_wait"}
  /\ callers'[c] # callers[c]
  /\ callers'[c].pc # "s_setid"
Accepted(w) == workers[w].kind = "reg" /\ workers[w].pc \in {"reg_setid", "reg_getid"}
CloseActive == \E c \in Callers : callers[c].op = "Close"
HeartbeatsInSameWorker(w) ==
  /\ workers[w].kind = "reg"
  /\ workers[w].pc \in {"hb_init", "hb_wait"}
  /\ agentID # NoID
  /\ cancel = w /\ stopped = w
C9_AcceptedWorkerHeartbeats ==
  \A w \in Workers :
    (Accepted(w) /\ ~CloseActive) ~> (HeartbeatsInSameWorker(w) \/ CloseActive)

\* C10: without graceful degradation a Start whose registration fails returns
\* the error and no AgentInfo; no step of it changes the agent-id, emits an
\* event, or starts, cancels or replaces a worker.
RegistrationStep(c) ==
  /\ callers[c].pc \in {"s_register", "s_list"}
  /\ callers'[c] # callers[c]
  /\ callers'[c].pc # "s_setid"
C10_FailedStartChangesNothing ==
  [][\A c \in Callers :
       (~gracefulDegradation /\ RegistrationStep(c)) =>
          /\ UNCHANGED <<clientVars, workerVars, eventVars>>
          /\ rpc'.kind # "ReportEvent"
          /\ \/ callers[c].pc = "s_register" /\ callers'[c].pc = "s_list"
             \/ /\ callers'[c].pc = "idle"
                /\ ret'.by = c /\ ret'.op = "Start"
                /\ ret'.err \in {"register", "list", "notfound"}
                /\ ret'.id = NoID]_vars
C10_Witness ==
  /\ ~gracefulDegradation
  /\ ret.op = "Start" /\ ret.err \in {"register", "list", "notfound"}
  /\ agentID # NoID
  /\ AliveWorkers # {}

\* C11: a Start with an empty Name returns the caller error at once, with or
\* without graceful degradation: it issues no RPC, leaves the client, the
\* workers, the events and the control plane as they were, and starts no
\* background retry.
CallBy(c) ==
  /\ callers[c].pc = "idle"
  /\ calls' = calls + 1
  /\ IF callers' # callers THEN callers'[c] # callers[c] ELSE ret'.by = c
NamelessStartCall(c) ==
  /\ CallBy(c)
  /\ ~(callers'[c].op = "Start" /\ callers'[c].name # "")
  /\ ~IsCloseCall(c)
C11_MissingNameIsCallerError ==
  [][\A c \in Callers :
       NamelessStartCall(c) =>
          /\ callers'[c] = IdleCaller
          /\ ret' = Ret(c, "Start", "name", NoID, "", "name")
          /\ rpc'.kind = "none"
          /\ UNCHANGED <<clientVars, workerVars, eventVars, backendVars>>]_vars
C11_Witness ==
  /\ ret.op = "Start" /\ ret.err = "name"
  /\ gracefulDegradation
  /\ agentID # NoID
  /\ AliveWorkers # {}

\* C12: every timer tick of the heartbeat loop issues exactly one liveness
\* call; a success sets the failure counter to 0 and the interval to the
\* configured base, a failure increments the counter and sets the interval
\* to a value of backoff(base, 5 min, counter); so a waiting loop with
\* counter 0 has the base interval, and one success after any number of
\* failures restores it.
C12_HeartbeatBackoffAndRecovery ==
  [][/\ (hbPc = "wait" /\ hbPc' = "wait" /\ <<hbVars, rpc>>' # <<hbVars, rpc>>
         /\ hbCtxDone' = hbCtxDone) =>
          /\ rpc'.kind = "Heartbeat"
          /\ hbResult' \in {"ok", "fail"}
          /\ baseInterval' = baseInterval
          /\ hbResult' = "ok" =>
               consecutiveFailures' = 0 /\ currentInterval' = baseInterval
          /\ hbResult' = "fail" =>
               /\ consecutiveFailures' = consecutiveFailures + 1
               /\ currentInterval' \in
                    backoff(baseInterval, maxHeartbeatInterval, consecutiveFailures')
     /\ (hbPc' = "wait" /\ consecutiveFailures' = 0) => currentInterval' = baseInterval'
    ]_vars
C12_Witness ==
  /\ hbPc = "wait"
  /\ hbResult = "ok"
  /\ prevFailures >= 2
  /\ consecutiveFailures = 0
  /\ currentInterval = baseInterval
  /\ baseInterval < maxHeartbeatInterval

\* C13 as stated: requests issued concurrently through a token-exchange
\* transport with an empty cache trigger exactly one token exchange when the
\* returned lifetime is above 30 s, and every forwarded request carries the
\* token of that exchange.
NoAcquisitionFailed == \A r \in Requests : ~reqs[r].failed
AllCarryFirstToken ==
  /\ exchanges <= 1
  /\ \A r \in Requests : reqs[r].sent = "bearer" => reqs[r].bearer = 1
C13_OneExchangeForLongLifetime ==
  (strategy = "exchange" /\ concurrent /\ NoAcquisitionFailed /\ ~shortLived) =>
     AllCarryFirstToken

\* C13 amended: requests issued concurrently through a token-exchange
\* transport with an empty cache trigger exactly one token exchange, and
\* every forwarded request carries the token of that exchange, provided the
\* exchange succeeds and no request reads the clock when the cached token is
\* 30 s or less from its expiry; a request that arrives during the exchange
\* waits for the mutex until the token is stored.
C13_OneExchangeWhileFresh ==
  /\ (strategy = "exchange" /\ concurrent /\ NoAcquisitionFailed /\ ~staleSeen) =>
        AllCarryFirstToken
  /\ \A r \in Requests :
        reqs[r].pc \in {"exchange", "v_ensure", "v_login", "v_oidc"} =>
           /\ tMu = r
           /\ \A q \in Requests \ {r} : reqs[q].pc \in {"new", "lock", "done"}
C13_Witness ==
  /\ strategy = "exchange" /\ concurrent /\ ~staleSeen /\ exchanges = 1
  /\ clock > 0
  /\ \A r \in Requests :
       reqs[r].kind = "plain" /\ reqs[r].sent = "bearer" /\ reqs[r].bearer = 1

\* C14: a request is sent with the cached token only if, when the cache was
\* read under the mutex, the token was non-empty and now + 30 s was before its
\* expiry; otherwise the request makes one fresh acquisition, and the token it
\* is sent with is the new one, stored with expiry = now + lifetime.
GetsBearer(r) == reqs[r].sent = "no" /\ reqs'[r].sent = "bearer"
FromCache(r) ==
  /\ reqs[r].pc = "lock"
  /\ token # NoToken /\ clock + TokenBuffer < expiry
  /\ reqs'[r].bearer = token
  /\ UNCHANGED <<token, expiry, exchanges>>
FromAcquisition(r) ==
  /\ reqs[r].pc \in {"exchange", "v_oidc"}
  /\ exchanges' = exchanges + 1
  /\ token' # NoToken /\ token' # token
  /\ reqs'[r].bearer = token'
  /\ rpc'.ev = "ok"
  /\ \E life \in Lifetimes :
       expiry' = (IF strategy = "exchange" THEN reqs[r].now ELSE clock) + life
C14_CachedTokenOnlyWhileFresh ==
  [][\A r \in Requests :
       /\ GetsBearer(r) => (FromCache(r) \/ FromAcquisition(r))
       /\ (reqs[r].pc = "lock" /\ reqs'[r].pc # "lock"
            /\ ~(token # NoToken /\ clock + TokenBuffer < expiry)) =>
              /\ reqs'[r].pc \in {"exchange", "v_ensure"}
              /\ reqs'[r].sent = "no"
              /\ reqs'[r].now = clock]_vars
C14_Witness ==
  /\ reqs[1].sent = "bearer" /\ reqs[2].sent = "bearer" /\ reqs[3].sent = "bearer"
  /\ reqs[2].bearer = reqs[1].bearer
  /\ reqs[3].bearer # reqs[1].bearer
  /\ token = reqs[3].bearer
  /\ ~shortLived

\* C15: a request that carries Authorization, or with the token-exchange
\* strategy targets the token endpoint, goes to the base transport as it is:
\* no token is added, no token exchange and no Vault login is made, and the
\* cache and the mutex are not touched, whatever the cache holds.
BypassCall(r) ==
  /\ reqs[r].pc = "new" /\ reqs'[r].pc # "new"
  /\ \/ reqs'[r].kind = "authed"
     \/ strategy = "exchange" /\ reqs'[r].kind = "tokenurl"
C15_BypassLeavesRequestAlone ==
  [][\A r \in Requests :
       BypassCall(r) =>
          /\ reqs'[r].pc = "done"
          /\ reqs'[r].sent = "asis" /\ reqs'[r].bearer = NoToken
          /\ ~reqs'[r].failed
          /\ rpc'.kind = "none"
          /\ UNCHANGED <<tMu, token, expiry, vaultToken, vaultExp, exchanges>>]_vars
C15_Witness ==
  /\ strategy = "exchange"
  /\ reqs[1].sent = "bearer" /\ shortLived /\ token # NoToken /\ ~Fresh(clock)
  /\ reqs[2].kind = "tokenurl" /\ reqs[2].sent = "asis"
  /\ reqs[3].kind = "authed" /\ reqs[3].sent = "asis"
  /\ exchanges = 1

\* C16: when the acquisition of a token fails (transport error, status other
\* than 200, undecodable body, missing token), the request ends with an error
\* and is not forwarded, the cached final token and its expiry stay as they
\* were, and the cache is still not fresh, so that the next request makes a
\* new acquisition.
AcquisitionFails(r) == ~reqs[r].failed /\ reqs'[r].failed
C16_FailedAcquisitionLeavesCache ==
  [][\A r \in Requests :
       AcquisitionFails(r) =>
          /\ reqs[r].pc \in {"exchange", "v_login", "v_oidc"}
          /\ reqs'[r].pc = "done"
          /\ reqs'[r].sent = "no" /\ reqs'[r].bearer = NoToken
          /\ rpc'.ev # "ok"
          /\ UNCHANGED <<token, expiry>>
          /\ ~(token' # NoToken /\ clock' + TokenBuffer < expiry')
          /\ tMu' = NoRequest]_vars
C16_Witness ==
  /\ reqs[1].sent = "bearer"
  /\ reqs[2].failed /\ reqs[2].sent = "no"
  /\ reqs[3].sent = "bearer" /\ reqs[3].bearer # reqs[1].bearer
  /\ token = reqs[3].bearer

\* C17: NewClient builds its transport from the highest-priority source
\* that is present, in the order WithCredentials, WithAPIKey,
\* DOME_AGENT_TOKEN, DOME_API_KEY, DOME_TOKEN, and fails with the
\* authentication-required error when none is present. (Checked for
\* credential strings that decode to a descriptor.)
Present(source) ==
  CASE source = "WithCredentials" -> optCredentials.text # ""
    [] source = "WithAPIKey" -> optAPIKey # ""
    [] source = "DOME_AGENT_TOKEN" -> envAgentToken.text # ""
    [] source = "DOME_API_KEY" -> envAPIKey # ""
    [] source = "DOME_TOKEN" -> envToken # ""
FirstPresent ==
  LET is == {i \in 1..Len(AuthSources) : Present(AuthSources[i])}
  IN IF is = {} THEN "" ELSE AuthSources[CHOOSE i \in is : \A j \in is : i <= j]
Structured(tok) == tok.text = "" \/ ~decodeToken(tok).nil
C17_HighestPrioritySourceWins ==
  (built.state # "none" /\ Structured(optCredentials) /\ Structured(envAgentToken)) =>
     IF FirstPresent = ""
       THEN built.state = "error" /\ built.err = "authentication required"
       ELSE built.state = "ok" /\ built.source = FirstPresent

\* C18: when the configured credential (WithCredentials, else
\* DOME_AGENT_TOKEN) is an opaque string that does not decode to a
\* descriptor, NewClient succeeds and the transport injects that string as
\* the Bearer token.
ConfiguredCredential ==
  IF optCredentials.text # "" THEN optCredentials ELSE envAgentToken
C18_OpaqueCredentialIsBearer ==
  (built.state # "none" /\ ConfiguredCredential.text # ""
     /\ ConfiguredCredential.enc \in {"plain", "base64"}) =>
       /\ built.state = "ok"
       /\ built.transport = "bearer"
       /\ built.bearer = ConfiguredCredential.text

\* C19: a Decision is computed from a policy set and carries a version that
\* the engine held together, as one complete state: the set and version from
\* before a concurrent LoadBundle or those after it, never the set of one
\* and the version of the other, and never a set under construction.
C19_EvaluateSeesWholeBundle ==
  /\ \A e \in Evals :
        (evals[e].pc = "done" /\ evals[e].authorized) =>
           /\ <<evals[e].set, evals[e].version>> \in installed
           /\ evals[e].allow = (evals[e].set # {})
  /\ \A e \in Evals :
        evals[e].pc = "decide" =>
           evals[e].set = policySet /\ <<policySet, policyVersion>> \in installed
C19_Witness ==
  /\ evals[1].pc = "done" /\ evals[1].version = NoVersion /\ evals[1].set = {}
  /\ evals[2].pc = "done" /\ evals[2].version = 1 /\ evals[2].set = Files
  /\ loads[2].pc = "parse" /\ loads[2].newPolicySet # {}

\* C20: a LoadBundle whose bundle holds a file that does not parse returns
\* an error, and none of its steps changes the engine's policy set (so its
\* policy count) or version, wherever the bad file comes among the entries.
HasBadFile(l) == \E f \in Files : loads'[l].policies[f] = "bad"
C20_FailedLoadKeepsBundle ==
  [][\A l \in Loads :
       (loads'[l] # loads[l] /\ HasBadFile(l)) =>
          /\ UNCHANGED <<policySet, policyVersion, installed, eWriter>>
          /\ loads'[l].pc \in {"parse", "done"}
          /\ loads'[l].pc = "done" => loads'[l].err
          /\ loads'[l].todo = {} => loads'[l].pc = "done"]_vars
C20_Witness ==
  /\ loads[1].pc = "done" /\ ~loads[1].err
  /\ loads[2].pc = "done" /\ loads[2].err /\ loads[2].newPolicySet # {}
  /\ policySet = Files /\ policyVersion = 1
  /\ \E e \in Evals : evals[e].pc = "done" /\ evals[e].version = 1

\* C21: a Check made while policy is disabled or the engine holds no policy
\* returns at once with Allowed = true, the reason "no policy bundle loaded"
\* and an empty PolicyVersion, and the authorizer is never asked; every
\* decision that did not come from the authorizer is that decision.
CheckCall(e) == evals[e].pc = "idle" /\ evals'[e].pc \in {"done", "evaluate"}
FailOpenDecision(d) ==
  /\ d.pc = "done" /\ ~d.authorized
  /\ d.allow /\ d.reason = "no policy bundle loaded" /\ d.version = NoVersion
C21_CheckFailsOpen ==
  [][\A e \in Evals :
       /\ (CheckCall(e) /\ (disablePolicy \/ policySet = {})) =>
             FailOpenDecision(evals'[e]) /\ UNCHANGED eReaders
       /\ (evals'[e].pc = "done" /\ ~evals'[e].authorized) =>
             FailOpenDecision(evals'[e])]_vars
C21_Witness ==
  /\ disablePolicy /\ policySet # {} /\ policyVersion # NoVersion
  /\ FailOpenDecision(evals[1]) /\ evals[2].pc = "idle"

\* Fetch calls that have had their answer
Answered(l) == fetches[l].pc \in {"returned", "loading", "done"}
OkWithETag(l) ==
  Answered(l) /\ fetches[l].resp.status = 200 /\ fetches[l].resp.etag # ""
Decoded(l) == OkWithETag(l) /\ fetches[l].resp.body.decodes
\* the ETag of the latest of the calls S, "" when there is none
MostRecentETag(S) ==
  IF S = {} THEN ""
  ELSE fetches[CHOOSE l \in S : \A k \in S : k <= l].resp.etag
\* Fetch sends If-None-Match with the remembered ETag, and only then
SendsRememberedETag ==
  \A l \in Loads :
    (fetches[l].pc = "idle" /\ fetches'[l].pc = "sent") =>
       fetches'[l].ifNoneMatch = etag /\ rpc'.ev = etag
\* 200 with an ETag, then 304: changed with the bundle, then unchanged
\* without an error and without a load, the first bundle still in force
NotModifiedKeepsBundle ==
  \A l \in Loads :
    (l + 1 \in Loads /\ Decoded(l) /\ fetches[l + 1].pc = "done"
       /\ fetches[l + 1].resp.status = 304) =>
          /\ fetches[l].changed /\ fetches[l].bundle # NoBundle
          /\ fetches[l + 1].ifNoneMatch = fetches[l].resp.etag
          /\ ~fetches[l + 1].changed /\ ~fetches[l + 1].err
          /\ fetches[l + 1].bundle = NoBundle
          /\ loads[l + 1] = IdleLoad
          /\ (~loads[l].err /\ \A k \in Loads : k > l => loads[k].pc = "idle") =>
                policyVersion = l /\ policySet = loads[l].newPolicySet

\* C22 as stated: Fetch sends If-None-Match exactly when an ETag is
\* remembered; the remembered ETag is that of the most recent 200 response
\* that carried one; 200 with an ETag then 304 give Changed = true with the
\* bundle, then Changed = false without an error, the first bundle in force.
C22_ETagOfLastOkResponse ==
  /\ [](etag = MostRecentETag({l \in Loads : OkWithETag(l)}))
  /\ []NotModifiedKeepsBundle
  /\ [][SendsRememberedETag]_vars

\* C22 amended: the remembered ETag is that of the most recent 200 response
\* that carried one and whose body was read and decoded; the rest as stated.
C22_ETagOfLastDecodedResponse ==
  /\ [](etag = MostRecentETag({l \in Loads : Decoded(l)}))
  /\ []NotModifiedKeepsBundle
  /\ [][SendsRememberedETag]_vars
C22_Witness ==
  /\ fetches[1].pc = "done" /\ Decoded(1) /\ fetches[1].ifNoneMatch = ""
  /\ loads[1].pc = "done" /\ ~loads[1].err
  /\ fetches[2].pc = "done" /\ fetches[2].resp.status = 304
  /\ fetches[2].ifNoneMatch = "etag-1" /\ ~fetches[2].changed
  /\ etag = "etag-1" /\ policyVersion = 1 /\ policySet = Files

\* the FetchResult of a call that got a response
Unchanged(l) == ~fetches[l].changed /\ fetches[l].bundle = NoBundle
GaveBundle(l) ==
  /\ fetches[l].changed /\ ~fetches[l].err
  /\ fetches[l].bundle = <<fetches[l].resp.body.policies>>
OtherStatuses(l) ==
  /\ fetches[l].resp.status \in {304, 404} => Unchanged(l) /\ ~fetches[l].err
  /\ fetches[l].resp.status \notin {200, 304, 404} => Unchanged(l) /\ fetches[l].err
\* a response that is not a 200 with an ETag leaves f.etag as it was
OnlyOkSetsETag ==
  \A l \in Loads :
    (fetches[l].pc = "sent" /\ fetches'[l].pc = "returned"
       /\ ~(fetches'[l].resp.status = 200 /\ fetches'[l].resp.etag # "")) =>
          etag' = etag

\* C30 as stated: 200 gives the bundle with Changed = true; 304 and 404 give
\* Changed = false with no error and no bundle; any other status gives an
\* error; a response other than a 200 with an ETag leaves the ETag alone.
C30_StatusDecidesOutcome ==
  /\ [](\A l \in Loads : (Answered(l) /\ fetches[l].resp # NoResponse) =>
          /\ fetches[l].resp.status = 200 => GaveBundle(l)
          /\ OtherStatuses(l))
  /\ [][OnlyOkSetsETag]_vars

\* C30 amended: a 200 whose body is read and decoded gives the bundle with
\* Changed = true; a 200 whose body is not gives an error and leaves the
\* ETag alone; the other statuses as stated.
C30_StatusAndBodyDecideOutcome ==
  /\ [](\A l \in Loads : (Answered(l) /\ fetches[l].resp # NoResponse) =>
          /\ (fetches[l].resp.status = 200 /\ fetches[l].resp.body.decodes) =>
                GaveBundle(l)
          /\ (fetches[l].resp.status = 200 /\ ~fetches[l].resp.body.decodes) =>
                Unchanged(l) /\ fetches[l].err
          /\ OtherStatuses(l))
  /\ [][OnlyOkSetsETag]_vars
  /\ [][\A l \in Loads :
         (fetches[l].pc = "sent" /\ fetches'[l].pc = "returned"
            /\ ~fetches'[l].resp.body.decodes) => etag' = etag]_vars
C30_Witness ==
  /\ fetches[1].pc = "done" /\ Decoded(1) /\ etag = fetches[1].resp.etag
  /\ fetches[2].pc = "done" /\ fetches[2].resp.status = 404
  /\ fetches[2].resp.etag \notin {"", etag}
  /\ Unchanged(2) /\ ~fetches[2].err /\ ~fetches[2].syncErr

\* C23: Init closes the client it replaces before the new one is created:
\* the only client that is created and not closed is the one the package
\* holds, the Close that Init makes leaves the old client without a worker,
\* and a successful Init returns with its new client installed; this also
\* with two Init calls racing.
InitCloses(g) == goroutines[g].op = "Init" /\ goroutines[g].pc = "close"
InitSucceeds(g) ==
  goroutines[g].op = "Init" /\ goroutines'[g].ret.op = "Init"
    /\ goroutines'[g].pc = "idle" /\ goroutines'[g].ret.err = ""
C23_InitReplacesClosedSingleton ==
  /\ [](\A k \in Clients : created[k].state = "open" => globalClient = k)
  /\ [](globalClient # NoClient => created[globalClient].state = "open")
  /\ [][\A g \in Goroutines :
         /\ (InitCloses(g) /\ goroutines'[g] # goroutines[g] /\ globalClient # NoClient) =>
               /\ created'[globalClient].state = "closed"
               /\ ~created'[globalClient].worker
         /\ InitSucceeds(g) =>
               /\ globalClient' = goroutines'[g].ret.client
               /\ globalClient' # NoClient /\ globalClient = NoClient
               /\ created[globalClient'].state = "none"
               /\ \A k \in Clients \ {globalClient'} : created'[k].state # "open"]_vars
C23_Witness ==
  /\ created[1].state = "closed" /\ created[1].stopped /\ ~created[1].worker
  /\ created[2].state = "open" /\ globalClient = 2
  /\ goroutines["g1"].ret = [NoReturn EXCEPT !.op = "Init", !.client = 1]
  /\ goroutines["g2"].ret = [NoReturn EXCEPT !.op = "Init", !.client = 2]

\* C24: a Shutdown that finds no client returns nil and changes nothing, and
\* a Check or a request through Middleware that finds no client, before Init
\* or after Shutdown, is answered as not initialized: Check returns the
\* error, the Middleware handler passes the request to the next handler.
ShutdownReturns(g) ==
  goroutines[g].op = "Shutdown" /\ goroutines[g].pc = "close"
    /\ goroutines'[g].pc = "idle"
Finds(g, op) ==
  goroutines[g].pc = "idle" /\ goroutines'[g].pc = "idle"
    /\ goroutines'[g] # goroutines[g] /\ goroutines'[g].ret.op = op
C24_NoSingletonMeansNotInitialized ==
  [][\A g \in Goroutines :
       /\ (ShutdownReturns(g) /\ globalClient = NoClient) =>
             /\ goroutines'[g].ret = [NoReturn EXCEPT !.op = "Shutdown"]
             /\ UNCHANGED <<globalClient, created>>
       /\ ShutdownReturns(g) => goroutines'[g].ret.err = "" /\ globalClient' = NoClient
       /\ (goroutines[g].pc = "idle" /\ goroutines'[g].pc = "call") =>
             globalClient # NoClient /\ goroutines'[g].ref = globalClient
       /\ Finds(g, "Check") =>
             /\ globalClient = NoClient /\ goroutines'[g].ret.err # ""
             /\ UNCHANGED <<globalClient, created>>
       /\ Finds(g, "Middleware") =>
             /\ globalClient = NoClient /\ goroutines'[g].ret.next
             /\ goroutines'[g].ret.err = ""
             /\ UNCHANGED <<globalClient, created>>]_vars
C24_Witness ==
  /\ created[1].state = "closed" /\ created[2].state = "none"
  /\ globalClient = NoClient
  /\ goroutines["g1"].ret = [NoReturn EXCEPT !.op = "Shutdown"]
  /\ goroutines["g2"].ret = [NoReturn EXCEPT !.op = "Middleware", !.next = TRUE]

\* C25: after Close has returned, and until a Start begins, the agent-id is
\* empty, so AgentID() returns the empty string.
C25_CloseClearsAgentId ==
  quietCloses > 0 => agentID = NoID

\* C26: the first Close after a Start, on a client whose agent-id is set,
\* goes on to send one "agent.stopped" ReportEvent before it cancels the
\* worker, whether or not a worker is running; a Close on a client without
\* an agent-id sends none; no other step sends that event.
C26_FirstCloseReportsStopped ==
  [][/\ \A c \in Callers :
          (quietCloses = 0 /\ IsCloseCall(c)) =>
             IF agentID # NoID
               THEN callers'[c].pc = "c_report"
               ELSE callers'[c].pc # "c_report" /\ rpc'.kind = "none"
     /\ \A c \in Callers :
          callers[c].pc = "c_report" =>
             (callers'[c] # callers[c] =>
                /\ rpc' = Rpc("ReportEvent", agentID, "agent.stopped")
                /\ callers'[c].pc = "c_cancel"
                /\ UNCHANGED workers)
     /\ (rpc'.kind = "ReportEvent" /\ rpc'.ev = "agent.stopped") =>
          \E c \in Callers : callers[c].pc = "c_report"]_vars

\* C27: every worker closes the channel that was made for it, once, when it
\* returns: no channel is closed twice, a running worker holds its own
\* channel for the deferred close, and a channel is closed exactly when its
\* worker has returned.
C27_ChannelClosedOnceByItsWorker ==
  /\ ~panicked
  /\ \A w \in Workers :
       /\ workers[w].pc \notin {"unborn", "spawned"} => workers[w].chan = w
       /\ chanClosed[w] <=> workers[w].pc = "done"
C27_Witness ==
  /\ \A w \in Workers : workers[w].pc = "done" /\ chanClosed[w] /\ workers[w].chan = w
  /\ \E w \in Workers : workers[w].kind = "hb"
  /\ quietCloses > 0 /\ ~panicked

\* C28: once the context of runHeartbeat has been canceled no step of the
\* loop calls Heartbeat again, and the only step left to it is the return.
C28_NoHeartbeatAfterCancel ==
  [][hbCtxDone =>
       /\ rpc'.kind # "Heartbeat"
       /\ hbPc' # hbPc => hbPc' = "done"]_vars

\* C29: with the Vault strategy, getting the OIDC token logs in to Vault
\* exactly when the cached Vault token is empty or the clock plus 60 s is
\* not before its expiry, and otherwise goes on to the OIDC request with
\* the cached Vault token untouched; a login is attempted nowhere else.
\* While the cached OIDC token is valid (clock plus 30 s before its expiry)
\* a request is forwarded with it and neither a login nor an OIDC request
\* is made.
VaultLoginNeeded == vaultToken = NoToken \/ ~(clock + 60 < vaultExp)
OIDCTokenValid == token # NoToken /\ clock + 30 < expiry
C29_VaultLoginOnlyWhenNeeded ==
  [][/\ \A r \in Requests :
          /\ (reqs[r].pc = "v_ensure" /\ reqs'[r].pc # "v_ensure") =>
                IF VaultLoginNeeded
                  THEN reqs'[r].pc = "v_login"
                  ELSE /\ reqs'[r].pc = "v_oidc"
                       /\ UNCHANGED <<vaultToken, vaultExp>>
          /\ (reqs[r].pc # "v_login" /\ reqs'[r].pc = "v_login") =>
                reqs[r].pc = "v_ensure"
          /\ (reqs[r].pc = "lock" /\ reqs'[r].pc # "lock" /\ OIDCTokenValid) =>
                /\ reqs'[r].pc = "done" /\ reqs'[r].sent = "bearer"
                /\ reqs'[r].bearer = token
                /\ UNCHANGED <<token, expiry, vaultToken, vaultExp, exchanges>>
     /\ rpc'.kind = "VaultLogin" => \E r \in Requests : reqs[r].pc = "v_login"
     /\ rpc'.kind \in {"VaultLogin", "VaultOIDC"} => ~OIDCTokenValid]_vars
\* request 1 logged in and was given an OIDC token that is already inside
\* its 30 s margin; request 2, in the same second, found the Vault token
\* good and is about to ask for a new OIDC token. No second has passed and
\* no later request has started, so the step that put request 2 there made
\* no call: it was ensureVaultToken returning nil.
C29_Witness ==
  /\ strategy = "vault" /\ clock = 0
  /\ reqs[1].pc = "done" /\ reqs[1].sent = "bearer"
  /\ reqs[2].pc = "v_oidc" /\ rpc = NoRpc
  /\ \A q \in Requests \ {1, 2} : reqs[q].pc = "new"
  /\ vaultToken # NoToken /\ ~VaultLoginNeeded /\ ~OIDCTokenValid

\* C31: Start makes exactly one sync before it returns; whether or not
\* that sync failed, Start returns and launches the loop. A sync that
\* fails on a tick leaves the loop waiting for the next tick, and a failed
\* sync never installs a policy set or a version in the engine.
StartReturning == syncer.start = "sync" /\ syncer'.start = "returned"
TickSyncReturning == syncer.loop = "sync" /\ syncer'.loop # "sync"
FailedSync(l) == fetches[l].pc = "done" /\ fetches[l].syncErr
C31_InitialSyncThenLoop ==
  /\ [](syncer.start # "returned" => syncer.loop = "off" /\ syncer.calls <= 1)
  /\ [](\A l \in Loads :
         FailedSync(l) =>
           /\ policyVersion # l
           /\ \A i \in installed : i[2] # l
           /\ loads[l].pc \in {"idle", "done"})
  /\ [][(StartReturning =>
            /\ syncer.calls = 1 /\ fetches[1].pc = "done"
            /\ syncer'.loop = "select" /\ syncer'.wg = 1
            /\ syncer'.calls = 1)
        /\ (TickSyncReturning => syncer'.loop = "select" /\ syncer'.wg = 1)
        /\ ((policySet' # policySet \/ policyVersion' # policyVersion) =>
            \E l \in Loads : /\ loads[l].pc \in {"set", "version"}
                              /\ ~loads[l].err /\ ~fetches[l].err)]_vars
\* the initial sync failed, Start returned and the loop made a second
\* sync whose bundle the engine rejected; the loop is back in its select
C31_Witness ==
  /\ syncer.start = "returned" /\ FailedSync(1)
  /\ syncer.calls = 2 /\ FailedSync(2) /\ loads[2].err
  /\ syncer.loop = "select" /\ syncer.stop = "idle"
  /\ policyVersion = NoVersion /\ policySet = {}

\* C32: Stop returns only once the loop has exited, and after its return
\* the syncer starts no Fetch and no LoadBundle and takes no step of one,
\* also when Stop was called while a sync was in progress.
C32_StopWaitsForLoop ==
  /\ [](syncer.stop = "returned" =>
          /\ syncer.loop = "exited" /\ syncer.wg = 0
          /\ \A l \in Loads : fetches[l].pc \in {"idle", "done"}
          /\ \A l \in Loads : loads[l].pc \in {"idle", "done"})
  /\ [][syncer.stop = "returned" =>
          /\ UNCHANGED <<fetches, loads, etag, policySet, policyVersion>>
          /\ rpc'.kind # "PolicyBundle"
          /\ syncer'.calls = syncer.calls]_vars
\* Stop was called during the second sync, which went on to load its
\* bundle, and has returned after the loop's exit
C32_Witness ==
  /\ syncer.stop = "returned" /\ syncer.stopAt = "sync"
  /\ syncer.calls = 2 /\ fetches[2].pc = "done"
  /\ loads[2].pc = "done" /\ policyVersion = 2

\* C38: whenever the Fetcher remembers an ETag, the Engine holds the bundle
\* that was served with it: once the sync that stored the ETag is over, its
\* LoadBundle has succeeded and installed its version, and the sync after a
\* bundle that LoadBundle rejected does not send that bundle's ETag.
LastDecoded ==
  LET S == {l \in Loads : Decoded(l)} IN CHOOSE l \in S : \A k \in S : k <= l
Rejected(l) == fetches[l].pc = "done" /\ Decoded(l) /\ loads[l].err
C38_ETagOnlyOfLoadedBundle ==
  /\ [](etag # "" =>
          (fetches[LastDecoded].pc = "done" =>
             /\ ~fetches[LastDecoded].syncErr
             /\ \E i \in installed : i[2] = LastDecoded))
  /\ [][\A l \in Loads :
          (l > 1 /\ fetches[l].pc = "idle" /\ fetches'[l].pc = "sent") =>
             (IF Rejected(l - 1)
                THEN fetches'[l].ifNoneMatch # fetches[l - 1].resp.etag
                ELSE TRUE)]_vars

\* C37: with policy enabled, once a LoadBundle has succeeded the engine
\* decides: Check answers with the fail-open allow only while no bundle
\* has ever been installed, also when the installed bundle holds no policy.
FailsOpen(e) ==
  /\ evals[e].pc = "idle" /\ evals'[e].pc = "done"
  /\ evals'[e].reason = "no policy bundle loaded"
C37_FailOpenOnlyBeforeFirstBundle ==
  [][\A e \in Evals :
       (~disablePolicy /\ FailsOpen(e)) =>
          /\ \A i \in installed : i[2] = NoVersion
          /\ \A l \in Loads : ~(loads[l].pc = "done" /\ ~loads[l].err)]_vars

\* C39: an Init that returns the error of NewClient leaves the package
\* without a client and with every client it ever created closed; and while
\* the last return of a goroutine is such a failed Init and the package
\* holds no client, a Check, Middleware request or Register is answered as
\* not initialized and reaches no client.
InitFails(g) ==
  goroutines[g].op = "Init" /\ goroutines[g].pc = "new"
    /\ goroutines'[g].pc = "idle" /\ goroutines'[g].ret.err # ""
InitFailed(g) ==
  goroutines[g].pc = "idle" /\ goroutines[g].ret.op = "Init"
    /\ goroutines[g].ret.err # ""
Calls(h) ==
  goroutines[h].pc = "idle" /\ goroutines'[h] # goroutines[h]
    /\ goroutines'[h].op \notin {"Init", "Shutdown"}
C39_FailedInitLeavesNoClient ==
  [][/\ \A g \in Goroutines :
          InitFails(g) =>
             /\ globalClient = NoClient /\ globalClient' = NoClient
             /\ \A k \in Clients : created'[k].state # "open"
             /\ goroutines'[g].ret.client = NoClient
             /\ UNCHANGED created
     /\ \A g, h \in Goroutines :
          (InitFailed(g) /\ globalClient = NoClient /\ Calls(h)) =>
             /\ goroutines'[h].pc = "idle"
             /\ \E op \in {"Check", "Middleware", "Register"} :
                   goroutines'[h].ret = NotInitialized(op)
             /\ UNCHANGED <<globalClient, created>>]_vars
\* the first client was given a worker by Register and closed by the Init
\* whose NewClient failed; a Check finds no client
C39_Witness ==
  /\ created[1].state = "closed" /\ created[1].stopped
  /\ created[2].state = "none" /\ globalClient = NoClient
  /\ InitFailed("g1")
  /\ goroutines["g2"].pc = "idle"
  /\ goroutines["g2"].ret = NotInitialized("Check")

\* C40: every Heartbeat RPC that a worker sends carries the agent-id that
\* AgentID() returns at that moment, whatever the interleaving of Start
\* calls and of the background registration worker.
C40_HeartbeatCarriesCurrentAgentId ==
  [][rpc'.kind = "Heartbeat" => rpc'.agent = agentID /\ agentID # NoID]_vars

\* C33: retryWithBackoff has no attempt limit and stops at the first
\* success: a failure of fn always leads to the wait and to another call,
\* the call that succeeds is call number failures + 1 and makes retry
\* return nil in the same step, and after the return fn is not called.
FnSucceeds == retry.pc = "call" /\ retry'.returned = "nil"
FnFails == retry.pc = "call" /\ retry'.failures # retry.failures
C33_RetriesUntilFirstSuccess ==
  /\ [](retry.pc \in {"call", "wait"} =>
          (/\ retry.returned = "none"
           /\ (retry.failures < MaxFailures => retry.invoked = retry.failures)))
  /\ [](retry.pc = "returned" => retry.returned \in {"nil", "canceled"})
  /\ [][/\ (FnSucceeds =>
             (/\ retry'.pc = "returned"
              /\ (retry.failures < MaxFailures =>
                    retry'.invoked = retry.failures + 1)
              /\ retry'.failures = retry.failures))
       /\ (FnFails => (retry'.pc = "wait" /\ retry'.returned = "none"))
       /\ ((retry.pc = "wait" /\ ~retry.ctxDone /\ retry' # retry
              /\ ~retry'.ctxDone) => retry'.pc = "call")
       /\ (retry.pc = "returned" => retry' = retry)]_vars
\* fn failed twice and succeeded at its third call; no cancellation
C33_Witness ==
  /\ retry.pc = "returned" /\ retry.returned = "nil"
  /\ retry.failures = 2 /\ retry.invoked = 3 /\ ~retry.ctxDone

C35_BackoffWithinBounds ==
  backoffCall.out # 0 =>
    /\ backoffCall.out >= backoffCall.base
    /\ backoffCall.out <= (5 * backoffCall.maxInterval) \div 4
    /\ (backoffCall.failures <= 0 => backoffCall.out = backoffCall.base)

\* C36: for failures >= 1, however large, backoff's interval before the
\* jitter is min(base * 2^failures, max): once base * 2^failures has
\* reached max, the result is within 25% of max (and not below base).
RECURSIVE Pow2(_)
Pow2(n) == IF n = 0 THEN 1 ELSE 2 * Pow2(n - 1)
C36_BackoffStaysAtMax ==
  (backoffCall.out # 0 /\ backoffCall.failures >= 1
     /\ backoffCall.base * Pow2(backoffCall.failures) >= backoffCall.maxInterval) =>
    /\ backoffCall.out >= (3 * backoffCall.maxInterval + 3) \div 4
    /\ backoffCall.out <= (5 * backoffCall.maxInterval) \div 4
    /\ backoffCall.out >= backoffCall.base

====
